---- MODULE Spec2Model ----
(***************************************************************************)
(* A model of the YOLO loss subsystem of TensorFlowModels:                  *)
(*   - the three custom-gradient hooks of yolo/losses/yolo_loss.py,         *)
(*   - Yolo_Loss (construction, build_masks, __call__),                     *)
(*   - YoloTask.build_losses of yolo/tasks/yolo.py.                         *)
(* Floating-point values are exact rationals extended with NaN and +/-Inf;  *)
(* a finite result whose magnitude exceeds FMax overflows to an infinity.   *)
(***************************************************************************)
EXTENDS Integers, Sequences, FiniteSets, TLC

VARIABLES grad, loss, task

vars == <<grad, loss, task>>

(***************************************************************************)
(* Bounds of the model.                                                     *)
(***************************************************************************)
\* number of elements of the tensors handed to a gradient hook
TensorLen == 2
\* upstream gradients take the integer values -DyMax..DyMax (and NaN, +/-Inf)
DyMax == 4
\* the largest finite magnitude of the floating-point format
FMax == 64

(***************************************************************************)
(* Floating-point values.                                                   *)
(***************************************************************************)
RECURSIVE GCD(_, _)
GCD(a, b) == IF b = 0 THEN a ELSE GCD(b, a % b)

Abs(x) == IF x < 0 THEN -x ELSE x

\* the finite value n/d (d > 0), in lowest terms
Fin(n, d) ==
  LET g == GCD(Abs(n), d)
  IN  [k |-> "fin", n |-> n \div g, d |-> d \div g]

NaN == [k |-> "nan", n |-> 0, d |-> 1]
PInf == [k |-> "inf", n |-> 1, d |-> 1]
NInf == [k |-> "inf", n |-> -1, d |-> 1]
Zero == Fin(0, 1)
One == Fin(1, 1)

IsNan(x) == x.k = "nan"
IsInf(x) == x.k = "inf"
IsFinite(x) == x.k = "fin"

Sign(x) == IF x.n > 0 THEN 1 ELSE IF x.n < 0 THEN -1 ELSE 0

\* a finite result out of the format's range becomes an infinity
Overflow(x) ==
  IF IsFinite(x) /\ (Abs(x.n) \div x.d > FMax
                       \/ (Abs(x.n) \div x.d = FMax /\ Abs(x.n) % x.d > 0))
    THEN (IF x.n > 0 THEN PInf ELSE NInf)
    ELSE x

FNeg(x) ==
  CASE IsNan(x) -> NaN
    [] IsInf(x) -> (IF x.n > 0 THEN NInf ELSE PInf)
    [] OTHER -> Fin(-x.n, x.d)

FMul(x, y) ==
  CASE IsNan(x) \/ IsNan(y) -> NaN
    [] IsInf(x) \/ IsInf(y) ->
         (IF Sign(x) * Sign(y) = 0 THEN NaN
          ELSE IF Sign(x) * Sign(y) > 0 THEN PInf ELSE NInf)
    [] OTHER ->
         LET g1 == GCD(Abs(x.n), y.d)
             g2 == GCD(Abs(y.n), x.d)
         IN  Overflow(Fin((x.n \div g1) * (y.n \div g2), (x.d \div g2) * (y.d \div g1)))

\* x < y; false when either is NaN
FLt(x, y) ==
  CASE IsNan(x) \/ IsNan(y) -> FALSE
    [] IsInf(x) /\ IsInf(y) -> x.n < y.n
    [] IsInf(x) -> x.n < 0
    [] IsInf(y) -> y.n > 0
    [] OTHER -> x.n * y.d < y.n * x.d

FLe(x, y) == FLt(x, y) \/ (~IsNan(x) /\ x = y)

\* tf.maximum / tf.minimum: a NaN operand gives NaN
FMaximum(x, y) ==
  IF IsNan(x) \/ IsNan(y) THEN NaN ELSE IF FLt(x, y) THEN y ELSE x

FMinimum(x, y) ==
  IF IsNan(x) \/ IsNan(y) THEN NaN ELSE IF FLt(y, x) THEN y ELSE x

clip_by_value(x, lo, hi) == FMinimum(FMaximum(x, lo), hi)

\* math_ops.rm_nan_inf: NaN and +/-Inf are replaced by val
rm_nan_inf_val(x, val) == IF IsFinite(x) THEN x ELSE val

rm_nan_inf(x) == rm_nan_inf_val(x, Zero)

(***************************************************************************)
(* The gradient hooks: forward value and backward (trap) function.          *)
(***************************************************************************)
Idx == 1..TensorLen

DyVals ==
  {Fin(i, 1) : i \in -DyMax..DyMax} \cup {Fin(FMax, 1), Fin(-FMax, 1)}
    \cup {NaN, PInf, NInf}
DyTensors == [Idx -> DyVals]

\* the forward inputs: two different tensors are enough to tell y from not-y
YTensors == {[i \in Idx |-> Zero], [i \in Idx |-> Fin(i, 1)]}

\* configured normalizers (0.5 stands for the fractional ones, e.g. 0.07)
NormVals == {Zero, Fin(1, 2), One, Fin(2, 1)}

\* configured max_delta >= 0; np.inf is the default
MaxDeltaVals == {Zero, One, Fin(3, 1), PInf}

NoScalar == [k |-> "none", n |-> 0, d |-> 1]

obj_gradient_trap_fwd(y, obj_normalizer) == y

\* a hook that hands the upstream gradient to its scalar input as well
obj_gradient_trap_bwd_leak(dy, obj_normalizer) ==
  <<[i \in Idx |-> FMul(dy[i], obj_normalizer)], dy[1]>>

obj_gradient_trap_bwd(dy, obj_normalizer) ==
  <<[i \in Idx |-> FMul(dy[i], obj_normalizer)], Zero>>

box_gradient_trap_fwd(y, iou_normalizer, max_delta) == y

\* a box hook that clips without sanitizing first
box_gradient_trap_bwd_nosanitize(dy, iou_normalizer, max_delta) ==
  LET scaled == [i \in Idx |-> FMul(dy[i], iou_normalizer)]
  IN  <<[i \in Idx |-> clip_by_value(scaled[i], FNeg(max_delta), max_delta)],
        Zero, Zero>>

\* a box hook that clips the upstream gradient before scaling it
box_gradient_trap_bwd_clipfirst(dy, iou_normalizer, max_delta) ==
  LET clean == [i \in Idx |-> rm_nan_inf(dy[i])]
      clipped == [i \in Idx |-> clip_by_value(clean[i], FNeg(max_delta), max_delta)]
  IN  <<[i \in Idx |-> rm_nan_inf(FMul(clipped[i], iou_normalizer))], Zero, Zero>>

box_gradient_trap_bwd(dy, iou_normalizer, max_delta) ==
  LET scaled == [i \in Idx |-> FMul(dy[i], iou_normalizer)]
      clean == [i \in Idx |-> rm_nan_inf(scaled[i])]
      delta == max_delta
  IN  <<[i \in Idx |-> clip_by_value(clean[i], FNeg(delta), delta)], Zero, Zero>>

class_gradient_trap_fwd(y, class_normalizer) == y

class_gradient_trap_bwd(dy, class_normalizer) ==
  LET scaled == [i \in Idx |-> FMul(dy[i], class_normalizer)]
  IN  <<[i \in Idx |-> rm_nan_inf(scaled[i])], Zero>>

GradIdle ==
  [hook |-> "none", phase |-> "idle", y |-> <<>>, out |-> <<>>,
   normalizer |-> NoScalar, max_delta |-> NoScalar, dy |-> <<>>, grads |-> <<>>]

ObjForward ==
  /\ grad.phase \in {"idle", "backward"}
  /\ \E y \in YTensors, nrm \in NormVals :
       grad' = [GradIdle EXCEPT !.hook = "obj", !.phase = "forward", !.y = y,
                                !.out = obj_gradient_trap_fwd(y, nrm),
                                !.normalizer = nrm]
  /\ UNCHANGED <<loss, task>>

BoxForward ==
  /\ grad.phase \in {"idle", "backward"}
  /\ \E y \in YTensors, nrm \in NormVals, md \in MaxDeltaVals :
       grad' = [GradIdle EXCEPT !.hook = "box", !.phase = "forward", !.y = y,
                                !.out = box_gradient_trap_fwd(y, nrm, md),
                                !.normalizer = nrm, !.max_delta = md]
  /\ UNCHANGED <<loss, task>>

ClassForward ==
  /\ grad.phase \in {"idle", "backward"}
  /\ \E y \in YTensors, nrm \in NormVals :
       grad' = [GradIdle EXCEPT !.hook = "class", !.phase = "forward", !.y = y,
                                !.out = class_gradient_trap_fwd(y, nrm),
                                !.normalizer = nrm]
  /\ UNCHANGED <<loss, task>>

ObjBackward ==
  /\ grad.phase = "forward" /\ grad.hook = "obj"
  /\ \E dy \in DyTensors :
       grad' = [grad EXCEPT !.phase = "backward", !.dy = dy,
                            !.grads = obj_gradient_trap_bwd(dy, grad.normalizer)]
  /\ UNCHANGED <<loss, task>>

BoxBackward ==
  /\ grad.phase = "forward" /\ grad.hook = "box"
  /\ \E dy \in DyTensors :
       grad' = [grad EXCEPT !.phase = "backward", !.dy = dy,
                            !.grads = box_gradient_trap_bwd(dy, grad.normalizer,
                                                            grad.max_delta)]
  /\ UNCHANGED <<loss, task>>

ClassBackward ==
  /\ grad.phase = "forward" /\ grad.hook = "class"
  /\ \E dy \in DyTensors :
       grad' = [grad EXCEPT !.phase = "backward", !.dy = dy,
                            !.grads = class_gradient_trap_bwd(dy, grad.normalizer)]
  /\ UNCHANGED <<loss, task>>

LossIdle == [pc |-> "none"]
TaskIdle == [pc |-> "none"]

InitGrad ==
  /\ grad = GradIdle
  /\ loss = LossIdle
  /\ task = TaskIdle

NextGrad ==
  \/ ObjForward
  \/ BoxForward
  \/ ClassForward
  \/ ObjBackward
  \/ BoxBackward
  \/ ClassBackward

SpecGrad == InitGrad /\ [][NextGrad]_vars

(***************************************************************************)
(* Claims about the gradient hooks (checked under SpecGrad).                *)
(***************************************************************************)
BoxBackwardDone == grad.hook = "box" /\ grad.phase = "backward"

FAbs(x) == IF Sign(x) < 0 THEN FNeg(x) ELSE x

\* C1: the backward output of box_gradient_trap lies in [-max_delta, max_delta]
\* at every position, and is exactly 0 wherever dy is NaN or +/-Inf; scaling
\* comes before sanitizing (a scaled value that is not finite gives 0) and
\* sanitizing before clipping (no NaN reaches the output).
C1_BoxTrapClipped ==
  BoxBackwardDone =>
    \A i \in Idx :
      /\ FLe(FNeg(grad.max_delta), grad.grads[1][i])
      /\ FLe(grad.grads[1][i], grad.max_delta)
      /\ IsFinite(grad.grads[1][i])
      /\ ~IsFinite(grad.dy[i]) => grad.grads[1][i] = Zero
      /\ ~IsFinite(FMul(grad.dy[i], grad.normalizer)) => grad.grads[1][i] = Zero

C1_Witness ==
  /\ BoxBackwardDone
  /\ grad.max_delta = One
  /\ grad.normalizer = One
  /\ IsNan(grad.dy[1]) /\ grad.grads[1][1] = Zero
  /\ grad.dy[2] = Fin(DyMax, 1) /\ grad.grads[1][2] = One

\* C2 as stated: every finite upstream gradient whose magnitude exceeds
\* max_delta comes out as exactly +max_delta or -max_delta (by its sign), for
\* every configured iou_normalizer.
C2_Original ==
  BoxBackwardDone =>
    \A i \in Idx :
      (IsFinite(grad.dy[i]) /\ FLt(grad.max_delta, FAbs(grad.dy[i]))) =>
        grad.grads[1][i] =
          (IF Sign(grad.dy[i]) > 0 THEN grad.max_delta ELSE FNeg(grad.max_delta))

\* C2 amended: every finite upstream gradient whose scaled value
\* dy * iou_normalizer is finite and exceeds max_delta in magnitude comes out
\* as exactly +max_delta (positive scaled value) or -max_delta (negative).
C2_ScaledClipExact ==
  BoxBackwardDone =>
    \A i \in Idx :
      LET scaled == FMul(grad.dy[i], grad.normalizer)
      IN  (IsFinite(grad.dy[i]) /\ IsFinite(scaled)
             /\ FLt(grad.max_delta, FAbs(scaled))) =>
            grad.grads[1][i] =
              (IF Sign(scaled) > 0 THEN grad.max_delta ELSE FNeg(grad.max_delta))

C2_Witness ==
  /\ BoxBackwardDone
  /\ grad.normalizer = Fin(2, 1)
  /\ grad.max_delta = Fin(3, 1)
  /\ grad.dy[1] = Fin(2, 1) /\ grad.grads[1][1] = Fin(3, 1)
  /\ grad.dy[2] = Fin(-2, 1) /\ grad.grads[1][2] = Fin(-3, 1)

\* C3: each hook returns its tensor input unchanged in the forward direction,
\* and its backward function returns gradient 0 for every scalar
\* hyperparameter input, whatever the upstream gradient is.
C3_HooksIdentityNoScalarGrad ==
  /\ grad.phase \in {"forward", "backward"} => grad.out = grad.y
  /\ (grad.phase = "backward" /\ grad.hook \in {"obj", "class"}) =>
       (Len(grad.grads) = 2 /\ grad.grads[2] = Zero)
  /\ (grad.phase = "backward" /\ grad.hook = "box") =>
       (Len(grad.grads) = 3 /\ grad.grads[2] = Zero /\ grad.grads[3] = Zero)

C3_Witness ==
  /\ grad.phase = "backward" /\ grad.hook = "obj"
  /\ grad.normalizer = Fin(2, 1)
  /\ grad.y # [i \in Idx |-> Zero] /\ grad.out = grad.y
  /\ grad.dy[1] = PInf /\ grad.grads[1][1] = PInf /\ grad.grads[2] = Zero

(***************************************************************************)
(* More floating-point arithmetic, used by the loss.                        *)
(***************************************************************************)
FAdd(x, y) ==
  CASE IsNan(x) \/ IsNan(y) -> NaN
    [] IsInf(x) /\ IsInf(y) -> (IF x.n = y.n THEN x ELSE NaN)
    [] IsInf(x) -> x
    [] IsInf(y) -> y
    [] OTHER ->
         LET g == GCD(x.d, y.d)
         IN  Overflow(Fin(x.n * (y.d \div g) + y.n * (x.d \div g), (x.d \div g) * y.d))

FSub(x, y) == FAdd(x, FNeg(y))

FDiv(x, y) ==
  CASE IsNan(x) \/ IsNan(y) -> NaN
    [] IsInf(x) /\ IsInf(y) -> NaN
    [] IsInf(x) -> (IF Sign(y) < 0 THEN FNeg(x) ELSE x)
    [] IsInf(y) -> Zero
    [] y.n = 0 -> (IF x.n = 0 THEN NaN ELSE IF x.n > 0 THEN PInf ELSE NInf)
    [] OTHER ->
         LET g1 == GCD(Abs(x.n), Abs(y.n))
             g2 == GCD(x.d, y.d)
         IN  Overflow(Fin((x.n \div g1) * (y.d \div g2) * Sign(y),
                          (x.d \div g2) * (Abs(y.n) \div g1)))

FSquare(x) == FMul(x, x)

Half == Fin(1, 2)
Two == Fin(2, 1)

\* tf.nn.relu
relu(x) == FMaximum(x, Zero)

\* math_ops.divide_no_nan / tf.math.divide_no_nan: 0 when the denominator is 0
divide_no_nan(x, y) == IF y = Zero THEN Zero ELSE FDiv(x, y)

\* math_ops.mul_no_nan(x, y): 0 where x is 0, whatever y is
mul_no_nan(x, y) == IF x = Zero THEN Zero ELSE FMul(x, y)

\* exp and log, to base 2 in place of base e: exact on the modelled values
\* (integer exponents, ratios that are powers of two), and with the same
\* limits (log 0 = -Inf, log of a negative number = NaN)
RECURSIVE Pow2(_)
Pow2(e) == IF e = 0 THEN 1 ELSE 2 * Pow2(e - 1)

Exp(x) ==
  CASE IsNan(x) -> NaN
    [] IsInf(x) -> (IF x.n > 0 THEN PInf ELSE Zero)
    [] OTHER -> IF x.n >= 0 THEN Overflow(Fin(Pow2(x.n), 1)) ELSE Fin(1, Pow2(-x.n))

RECURSIVE Log2(_, _)
Log2(n, d) ==
  IF n = d THEN 0 ELSE IF n > d THEN 1 + Log2(n, 2 * d) ELSE Log2(2 * n, d) - 1

Log(x) ==
  CASE IsNan(x) -> NaN
    [] IsInf(x) -> (IF x.n > 0 THEN PInf ELSE NaN)
    [] x.n = 0 -> NInf
    [] x.n < 0 -> NaN
    [] OTHER -> Fin(Log2(x.n, x.d), 1)

(***************************************************************************)
(* Boxes and their overlaps (yolo.ops.box_ops).  A box is a record of four  *)
(* floats, centre form (x, y, w, h) or corner form (ymin, xmin, ymax, xmax).*)
(* The overlap of two boxes is computed on the lattice of 1/64ths, which    *)
(* holds every corner of the modelled boxes exactly.                        *)
(***************************************************************************)
Box(x, y, w, h) == [x |-> x, y |-> y, w |-> w, h |-> h]

xcycwh_to_yxyx(b) ==
  [ymin |-> FSub(b.y, FMul(b.h, Half)), xmin |-> FSub(b.x, FMul(b.w, Half)),
   ymax |-> FAdd(b.y, FMul(b.h, Half)), xmax |-> FAdd(b.x, FMul(b.w, Half))]

yxyx_to_xcycwh(c) ==
  Box(FMul(FAdd(c.xmin, c.xmax), Half), FMul(FAdd(c.ymin, c.ymax), Half),
      FSub(c.xmax, c.xmin), FSub(c.ymax, c.ymin))

\* a finite coordinate in 64ths
Lat(f) == (f.n * 64) \div f.d

BoxIsFinite(b) == IsFinite(b.x) /\ IsFinite(b.y) /\ IsFinite(b.w) /\ IsFinite(b.h)

\* the corners of a centre-form box, in 64ths
LatCorners(b) ==
  [ymin |-> Lat(b.y) - Lat(b.h) \div 2, xmin |-> Lat(b.x) - Lat(b.w) \div 2,
   ymax |-> Lat(b.y) + Lat(b.h) \div 2, xmax |-> Lat(b.x) + Lat(b.w) \div 2]

IMin(i, j) == IF i < j THEN i ELSE j
IMax(i, j) == IF i < j THEN j ELSE i

LatArea(c) == (c.xmax - c.xmin) * (c.ymax - c.ymin)

\* the area of the intersection: tf.nn.relu of the extent on each axis
LatIntersection(c1, c2) ==
  IMax(IMin(c1.xmax, c2.xmax) - IMax(c1.xmin, c2.xmin), 0)
    * IMax(IMin(c1.ymax, c2.ymax) - IMax(c1.ymin, c2.ymin), 0)

LatUnion(c1, c2) == LatArea(c1) + LatArea(c2) - LatIntersection(c1, c2)

\* the ratio i/j of two lattice quantities, by divide_no_nan
LatRatio(i, j) == IF j = 0 THEN Zero ELSE IF j > 0 THEN Fin(i, j) ELSE Fin(-i, -j)

\* box_ops.compute_iou on centre-form boxes
compute_iou(b1, b2) ==
  IF ~(BoxIsFinite(b1) /\ BoxIsFinite(b2)) THEN NaN
  ELSE LET c1 == LatCorners(b1)
           c2 == LatCorners(b2)
       IN  LatRatio(LatIntersection(c1, c2), LatUnion(c1, c2))

\* the smallest box enclosing both
LatEnclosing(c1, c2) ==
  [ymin |-> IMin(c1.ymin, c2.ymin), xmin |-> IMin(c1.xmin, c2.xmin),
   ymax |-> IMax(c1.ymax, c2.ymax), xmax |-> IMax(c1.xmax, c2.xmax)]

\* box_ops.compute_giou: <<iou, giou>>
compute_giou(b1, b2) ==
  IF ~(BoxIsFinite(b1) /\ BoxIsFinite(b2)) THEN <<NaN, NaN>>
  ELSE LET c1 == LatCorners(b1)
           c2 == LatCorners(b2)
           u == LatUnion(c1, c2)
           c == LatArea(LatEnclosing(c1, c2))
           iou == LatRatio(LatIntersection(c1, c2), u)
       IN  <<iou, FSub(iou, LatRatio(c - u, c))>>

\* arctan, in units of pi/4, on the aspect ratios of the modelled boxes
\* (0 of an empty box, 1 of a square one)
AtanQ(r) ==
  CASE IsNan(r) -> NaN
    [] r = Zero -> Zero
    [] r = One -> One

\* the aspect-ratio term v = 4/pi^2 * (arctan(w1/h1) - arctan(w2/h2))^2
AspectV(b1, b2) ==
  FMul(FSquare(FSub(AtanQ(divide_no_nan(b1.w, b1.h)),
                    AtanQ(divide_no_nan(b2.w, b2.h)))), Fin(1, 4))

\* box_ops.compute_ciou: <<iou, ciou>>
compute_ciou(b1, b2) ==
  IF ~(BoxIsFinite(b1) /\ BoxIsFinite(b2)) THEN <<NaN, NaN>>
  ELSE LET c1 == LatCorners(b1)
           c2 == LatCorners(b2)
           e == LatEnclosing(c1, c2)
           diag2 == (e.xmax - e.xmin) * (e.xmax - e.xmin)
                      + (e.ymax - e.ymin) * (e.ymax - e.ymin)
           dist2 == (Lat(b1.x) - Lat(b2.x)) * (Lat(b1.x) - Lat(b2.x))
                      + (Lat(b1.y) - Lat(b2.y)) * (Lat(b1.y) - Lat(b2.y))
           iou == LatRatio(LatIntersection(c1, c2), LatUnion(c1, c2))
           v == AspectV(b1, b2)
           a == divide_no_nan(v, FAdd(FSub(One, iou), v))
       IN  <<iou, FSub(FSub(iou, LatRatio(dist2, diag2)), FMul(a, v))>>

(***************************************************************************)
(* Values that the model keeps symbolic: the cross-entropies (logarithms of *)
(* the predictions) are terms over their arguments, with x * 1 = x and      *)
(* x + 0 = x.                                                               *)
(***************************************************************************)
Sym(op, args) == [k |-> "sym", op |-> op, args |-> args]
IsSym(v) == v.k = "sym"

Mul(x, y) ==
  IF IsSym(x) \/ IsSym(y)
    THEN (IF x = One THEN y ELSE IF y = One THEN x ELSE Sym("mul", <<x, y>>))
    ELSE FMul(x, y)

Add(x, y) ==
  IF IsSym(x) \/ IsSym(y)
    THEN (IF x = Zero THEN y ELSE IF y = Zero THEN x ELSE Sym("add", <<x, y>>))
    ELSE FAdd(x, y)

\* math_ops.mul_no_nan on a value that may be symbolic
mul_no_nan_sym(x, y) == IF x = Zero THEN Zero ELSE Mul(x, y)

(***************************************************************************)
(* Yolo_Loss: the shapes and inputs of one call.  One sample, one grid cell *)
(* (grid point (0, 0), width = height = 1), NumAnchors anchors at it, and   *)
(* MaxInstances ground-truth slots in the side channel.                     *)
(***************************************************************************)
\* ground-truth slots of the side-channel tensors boxes / classes
MaxInstances == 2

Anchors == 1..2
Instances == 1..MaxInstances
ClassIds == {0, 1}

fwidth == One
fheight == One
GridPoint == [x |-> Zero, y |-> Zero]

\* anchor_grid: the (w, h) prior of each anchor of the level
AnchorWH(a) == IF a = 1 THEN [w |-> Half, h |-> Half] ELSE [w |-> Fin(1, 4), h |-> Fin(1, 4)]

Corners(ymin, xmin, ymax, xmax) ==
  [ymin |-> ymin, xmin |-> xmin, ymax |-> ymax, xmax |-> xmax]

\* ground-truth entries of the side channel: a corner-form box and a class id
GTBoxA == Corners(Fin(1, 4), Fin(1, 4), Fin(3, 4), Fin(3, 4))
GTBoxD == Corners(Zero, Zero, Fin(1, 4), Fin(1, 4))
PadEntry == [box |-> Corners(Zero, Zero, Zero, Zero), cls |-> 0]
GTReal == {[box |-> GTBoxA, cls |-> 0], [box |-> GTBoxA, cls |-> 1],
           [box |-> GTBoxD, cls |-> 0]}

\* the place of a real entry in the order the objects of an image are listed
GTRank(e) == IF e.box = GTBoxD THEN 3 ELSE e.cls + 1

\* the side channel holds the distinct objects of the image first, in their
\* order, and is zero-padded after them
GTLists ==
  {gt \in [Instances -> GTReal \cup {PadEntry}] :
     \A i \in Instances :
       i > 1 => \/ gt[i] = PadEntry
                \/ (gt[i - 1] # PadEntry /\ GTRank(gt[i - 1]) < GTRank(gt[i]))}

\* one anchor's slice of y_pred: sxy = sigmoid of the raw xy (both coordinates),
\* wh = the raw wh (both), conf = the objectness logit, cls = sigmoid of the
\* class logits
ClassHigh0 == <<Fin(3, 4), Fin(1, 4)>>
ClassHigh1 == <<Fin(1, 4), Fin(3, 4)>>
PredSet ==
  {[sxy |-> Half, wh |-> Zero, conf |-> One, cls |-> ClassHigh0],
   [sxy |-> Half, wh |-> Zero, conf |-> Fin(-1, 1), cls |-> ClassHigh1],
   [sxy |-> Fin(17, 32), wh |-> Zero, conf |-> One, cls |-> ClassHigh0],
   [sxy |-> Zero, wh |-> Zero, conf |-> NaN, cls |-> ClassHigh0],
   [sxy |-> Half, wh |-> One, conf |-> Zero, cls |-> ClassHigh1],
   [sxy |-> NaN, wh |-> NaN, conf |-> Fin(-1, 1), cls |-> ClassHigh0]}

\* y_true is built by the data pipeline from the same ground truth: each anchor
\* holds no object (0) or the object of one real side-channel entry
Assignments(gt) ==
  {as \in [Anchors -> {0} \cup Instances] :
     \A a \in Anchors : as[a] # 0 => gt[as[a]] # PadEntry}

LossInputs ==
  UNION {{[gt |-> gt, pred |-> pred, assign |-> as] :
            pred \in [Anchors -> PredSet], as \in Assignments(gt)} : gt \in GTLists}

NoInput == [gt |-> <<>>, pred |-> <<>>, assign |-> <<>>]

\* the slice of y_true at anchor a: box (xcycwh), objectness, class id
YTrue(in, a) ==
  IF in.assign[a] = 0
    THEN [box |-> Box(Zero, Zero, Zero, Zero), conf |-> Zero, cls |-> 0]
    ELSE [box |-> yxyx_to_xcycwh(in.gt[in.assign[a]].box), conf |-> One,
          cls |-> in.gt[in.assign[a]].cls]

(***************************************************************************)
(* Yolo_Loss: construction.                                                 *)
(***************************************************************************)
LossTypeNames == {"mse", "giou", "ciou", "iou"}

\* the hyperparameters an object is constructed with
HyperParams ==
  {[truth_thresh |-> One, iou_normalizer |-> One],
   [truth_thresh |-> Fin(3, 4), iou_normalizer |-> Half]}

LossTypeCode(loss_type) ==
  IF loss_type = "giou" THEN 1 ELSE IF loss_type = "ciou" THEN 2 ELSE 0

Yolo_Loss_init(loss_type, new_cords, truth_thresh, iou_normalizer) ==
  [loss_type |-> LossTypeCode(loss_type),
   new_cords |-> new_cords,
   truth_thresh |-> truth_thresh,
   ignore_thresh |-> Fin(7, 10),
   use_reduction_sum |-> FALSE,
   iou_normalizer |-> iou_normalizer,
   cls_normalizer |-> One,
   obj_normalizer |-> One,
   scale_x_y |-> One,
   max_delta |-> Fin(10, 1)]

(***************************************************************************)
(* Yolo_Loss: decoding and encoding of boxes.                               *)
(***************************************************************************)
\* the scaled sigmoid of get_predicted_box, sig the sigmoid of the raw xy
scaled_sigmoid_halfshift(sig, scale_x_y) ==
  FSub(FMul(sig, scale_x_y), FMul(Half, scale_x_y))

scaled_sigmoid(sig, scale_x_y) ==
  FSub(FMul(sig, scale_x_y), FMul(Half, FSub(scale_x_y, One)))

\* the box of get_predicted_box: xy / resolution + grid_points, exp(wh) * anchor
decode_box(xy, wh, width, height, anchor_grid, grid_points) ==
  Box(FAdd(FDiv(xy.x, width), grid_points.x),
      FAdd(FDiv(xy.y, height), grid_points.y),
      FMul(Exp(wh.w), anchor_grid.w),
      FMul(Exp(wh.h), anchor_grid.h))

\* get_predicted_box at anchor a: <<pred_xy, pred_wh, pred_box>>
get_predicted_box(cfg, p, a) ==
  LET sig == scaled_sigmoid(p.sxy, cfg.scale_x_y)
      pred_xy == box_gradient_trap_fwd(sig, cfg.iou_normalizer, cfg.max_delta)
      pred_wh == box_gradient_trap_fwd(p.wh, cfg.iou_normalizer, cfg.max_delta)
  IN  [pred_xy |-> pred_xy, pred_wh |-> pred_wh,
       pred_box |-> decode_box([x |-> pred_xy, y |-> pred_xy],
                               [w |-> pred_wh, h |-> pred_wh],
                               fwidth, fheight, AnchorWH(a), GridPoint)]

\* _scale_ground_truth_box: the encoded xy and wh targets of a box
scale_ground_truth_box_unscaled(box, width, height, anchor_grid, grid_points) ==
  [x |-> relu(FSub(box.x, grid_points.x)),
   y |-> relu(FSub(box.y, grid_points.y)),
   w |-> rm_nan_inf(Log(FDiv(box.w, anchor_grid.w))),
   h |-> rm_nan_inf(Log(FDiv(box.h, anchor_grid.h)))]

scale_ground_truth_box_at(box, width, height, anchor_grid, grid_points) ==
  [x |-> FMul(relu(FSub(box.x, grid_points.x)), width),
   y |-> FMul(relu(FSub(box.y, grid_points.y)), height),
   w |-> rm_nan_inf(Log(FDiv(box.w, anchor_grid.w))),
   h |-> rm_nan_inf(Log(FDiv(box.h, anchor_grid.h)))]

\* _scale_ground_truth_box at anchor a of the level
scale_ground_truth_box(box, a) ==
  scale_ground_truth_box_at(box, fwidth, fheight, AnchorWH(a), GridPoint)

(***************************************************************************)
(* Yolo_Loss.build_masks.                                                   *)
(***************************************************************************)
\* a tensor given by its elements: the sequence of the values of f on 1..n
Tensor(f) == f \o <<>>

\* tf.cast of a boolean to a float
Cast(b) == IF b THEN One ELSE Zero

\* tf.argmax over a vector of class scores: the first index (from 0) of the maximum
Argmax(v) ==
  (CHOOSE i \in DOMAIN v :
     /\ \A j \in DOMAIN v : FLe(v[j], v[i])
     /\ \A j \in DOMAIN v : j < i => FLt(v[j], v[i])) - 1

\* build_masks with the class agreement left out
build_masks_noclass(cfg, pred_boxes, pred_classes, boxes, classes) ==
  LET gtbox == Tensor([n \in Instances |-> yxyx_to_xcycwh(boxes[n])])
      iou == Tensor([n \in Instances |->
                       Tensor([a \in Anchors |-> compute_iou(gtbox[n], pred_boxes[a])])])
      iou_mask == [a \in Anchors |-> \E n \in Instances : FLt(cfg.ignore_thresh, iou[n][a])]
  IN  [ignore_mask |-> [a \in Anchors |-> Cast(~iou_mask[a])],
       true_mask |-> [n \in Instances |->
                        [a \in Anchors |-> Cast(FLt(cfg.truth_thresh, iou[n][a]))]]]

\* build_masks that joins overlap and class agreement with "or"
build_masks_or(cfg, pred_boxes, pred_classes, boxes, classes) ==
  LET gtbox == Tensor([n \in Instances |-> yxyx_to_xcycwh(boxes[n])])
      iou == Tensor([n \in Instances |->
                       Tensor([a \in Anchors |-> compute_iou(gtbox[n], pred_boxes[a])])])
      iou_mask == [a \in Anchors |->
                     \E n \in Instances :
                       FLt(cfg.ignore_thresh, iou[n][a]) \/ classes[n] = Argmax(pred_classes[a])]
  IN  [ignore_mask |-> [a \in Anchors |-> Cast(~iou_mask[a])],
       true_mask |-> [n \in Instances |->
                        [a \in Anchors |-> Cast(FLt(cfg.truth_thresh, iou[n][a]))]]]

build_masks(cfg, pred_boxes, pred_classes, boxes, classes) ==
  LET gtbox == Tensor([n \in Instances |-> yxyx_to_xcycwh(boxes[n])])
      pred_classes_max == Tensor([a \in Anchors |-> Argmax(pred_classes[a])])
      matched_classes ==
        [a \in Anchors |-> [n \in Instances |-> classes[n] = pred_classes_max[a]]]
      iou == Tensor([n \in Instances |->
                       Tensor([a \in Anchors |-> compute_iou(gtbox[n], pred_boxes[a])])])
      iou_mask0 == [n \in Instances |-> [a \in Anchors |-> FLt(cfg.ignore_thresh, iou[n][a])]]
      iou_maskT == [a \in Anchors |-> [n \in Instances |-> iou_mask0[n][a]]]
      iou_mask1 ==
        [a \in Anchors |-> [n \in Instances |-> iou_maskT[a][n] /\ matched_classes[a][n]]]
      iou_mask == [a \in Anchors |-> \E n \in Instances : iou_mask1[a][n]]
      true_mask ==
        [n \in Instances |-> [a \in Anchors |-> Cast(FLt(cfg.truth_thresh, iou[n][a]))]]
      ignore_mask == [a \in Anchors |-> Cast(~iou_mask[a])]
  IN  [ignore_mask |-> ignore_mask, true_mask |-> true_mask]

(***************************************************************************)
(* Yolo_Loss.__call__.                                                      *)
(***************************************************************************)
\* tf.one_hot of a class id over the class channels
one_hot(cls) == [c \in 1..Cardinality(ClassIds) |-> Cast(c - 1 = cls)]

\* a selection that takes the one variant for the other
IouPair_swapped(cfg, true_box, pred_box) ==
  IF cfg.loss_type = 1 THEN compute_ciou(true_box, pred_box)
  ELSE IF cfg.loss_type = 2 THEN compute_giou(true_box, pred_box)
  ELSE <<compute_iou(true_box, pred_box), compute_iou(true_box, pred_box)>>

\* <<iou, liou>> of the configured loss type
IouPair(cfg, true_box, pred_box) ==
  IF cfg.loss_type = 1 THEN compute_giou(true_box, pred_box)
  ELSE IF cfg.loss_type = 2 THEN compute_ciou(true_box, pred_box)
  ELSE <<compute_iou(true_box, pred_box), compute_iou(true_box, pred_box)>>

\* the unmasked box-loss term of one anchor
BoxTerm(cfg, yt, dec, a) ==
  IF cfg.loss_type \in {1, 2}
    THEN FSub(One, IouPair(cfg, yt.box, dec.pred_box)[2])
    ELSE LET scale == FMul(FSub(Two, FMul(yt.box.w, yt.box.h)), cfg.iou_normalizer)
             t == scale_ground_truth_box(yt.box, a)
             loss_xy == FAdd(FSquare(FSub(t.x, dec.pred_xy)), FSquare(FSub(t.y, dec.pred_xy)))
             loss_wh == FAdd(FSquare(FSub(t.w, dec.pred_wh)), FSquare(FSub(t.h, dec.pred_wh)))
         IN  FMul(FAdd(loss_wh, loss_xy), scale)

\* a box loss that leaves the mse term unmasked
LossBoxCell_unmasked(cfg, yt, dec, a) ==
  IF cfg.loss_type \in {1, 2}
    THEN mul_no_nan(yt.conf, BoxTerm(cfg, yt, dec, a))
    ELSE BoxTerm(cfg, yt, dec, a)

\* loss_box of one anchor
LossBoxCell(cfg, yt, dec, a) == mul_no_nan(yt.conf, BoxTerm(cfg, yt, dec, a))

\* class_loss of one anchor
ClassLossCell(cfg, yt, pred_class) ==
  mul_no_nan_sym(yt.conf, Sym("class_bce", <<one_hot(yt.cls), pred_class>>))

\* an objectness weight that forgets the positive cells
ObjMask_ignoreonly(true_conf, mask_loss) == mask_loss

\* obj_mask of one anchor in the legacy variant
ObjMask(true_conf, mask_loss) ==
  FAdd(true_conf, FMul(FSub(One, true_conf), mask_loss))

RECURSIVE SumOver(_, _)
\* tf.reduce_sum over the anchors 1..n of the cell
SumOver(f, n) == IF n = 0 THEN Zero ELSE Add(SumOver(f, n - 1), f[n])

NumAnchors == Cardinality(Anchors)

\* tf.sigmoid, to base 2 like Exp: 1 / (1 + 2^-x)
Sigmoid(x) == FDiv(One, FAdd(One, Exp(FNeg(x))))

\* division of a value that may be symbolic
Div(x, y) ==
  IF IsSym(x) THEN (IF y = One THEN x ELSE Sym("div", <<x, y>>)) ELSE FDiv(x, y)

\* tf.reduce_sum and tf.reduce_mean over one axis of a tensor
ReduceSum(t) == SumOver(t, Len(t))
ReduceMean(t) == Div(ReduceSum(t), Fin(Len(t), 1))

\* a reduction that takes the batch mean of the total in both modes
reduce_losses_meanonly(use_reduction_sum, loss_box, conf_loss, class_loss) ==
  LET box_s == Tensor([b \in DOMAIN loss_box |-> ReduceSum(loss_box[b])])
      conf_s == Tensor([b \in DOMAIN conf_loss |-> ReduceSum(conf_loss[b])])
      class_s == Tensor([b \in DOMAIN class_loss |-> ReduceSum(class_loss[b])])
      per == Tensor([b \in DOMAIN loss_box |-> Add(Add(class_s[b], conf_s[b]), box_s[b])])
  IN  [sum_box |-> box_s, sum_conf |-> conf_s, sum_class |-> class_s,
       loss |-> ReduceMean(per),
       loss_box |-> ReduceMean(box_s), conf_loss |-> ReduceMean(conf_s),
       class_loss |-> ReduceMean(class_s)]

\* steps 8 and 9 of __call__ on the per-cell losses [sample][cell]: the sums of
\* each sample, the total loss and the three sub-losses
reduce_losses(use_reduction_sum, loss_box, conf_loss, class_loss) ==
  LET box_s == Tensor([b \in DOMAIN loss_box |-> ReduceSum(loss_box[b])])
      conf_s == Tensor([b \in DOMAIN conf_loss |-> ReduceSum(conf_loss[b])])
      class_s == Tensor([b \in DOMAIN class_loss |-> ReduceSum(class_loss[b])])
      per == Tensor([b \in DOMAIN loss_box |-> Add(Add(class_s[b], conf_s[b]), box_s[b])])
  IN  [sum_box |-> box_s, sum_conf |-> conf_s, sum_class |-> class_s,
       loss |-> IF use_reduction_sum THEN ReduceSum(per) ELSE ReduceMean(per),
       loss_box |-> ReduceMean(box_s), conf_loss |-> ReduceMean(conf_s),
       class_loss |-> ReduceMean(class_s)]

\* Yolo_Loss.recall on pred_conf, true_conf [sample][cell]
recall(pred_conf, true_conf, pct) ==
  ReduceMean([b \in DOMAIN true_conf |->
                divide_no_nan(
                  ReduceSum([c \in DOMAIN true_conf[b] |->
                               mul_no_nan(true_conf[b][c],
                                          Cast(FLt(pct, Sigmoid(pred_conf[b][c]))))]),
                  ReduceSum(true_conf[b]))])

\* tf.math.count_nonzero over a tensor [sample][cell]
CountNonzero(t) ==
  Cardinality(UNION {{<<b, c>> : c \in {i \in DOMAIN t[b] : t[b][i] # Zero}} :
                       b \in DOMAIN t})

\* an average that divides unguarded
avgiou_unsafe(iou, true_conf) ==
  FDiv(ReduceSum([b \in DOMAIN iou |-> ReduceSum(iou[b])]),
       Fin(CountNonzero(true_conf), 1))

\* Yolo_Loss.avgiou on iou, true_conf [sample][cell]
avgiou(iou, true_conf) ==
  divide_no_nan(ReduceSum([b \in DOMAIN iou |-> ReduceSum(iou[b])]),
                Fin(CountNonzero(true_conf), 1))

\* step 10 of __call__ on pred_conf, true_conf, iou [sample][cell]
loss_metrics(pred_conf, true_conf, iou) ==
  [recall50 |-> recall(pred_conf, true_conf, Half),
   avg_iou |-> avgiou(Tensor([b \in DOMAIN iou |->
                                Tensor([c \in DOMAIN iou[b] |->
                                          FMul(iou[b][c], true_conf[b][c])])]),
                      true_conf),
   avg_obj |-> avgiou(Tensor([b \in DOMAIN pred_conf |->
                                Tensor([c \in DOMAIN pred_conf[b] |->
                                          FMul(Sigmoid(pred_conf[b][c]),
                                               true_conf[b][c])])]),
                      true_conf)]

\* Yolo_Loss.print_error on the elements of a tensor: the key is printed when
\* one of them is a NaN
print_error(pred, key) == IF \E v \in pred : IsNan(v) THEN {key} ELSE {}

\* whether a value is connected to y_pred in the gradient graph: y_pred is, the
\* labels are not, the result of an operation is when one of its operands is
FromPred == TRUE
FromLabels == FALSE
InGraph(operands) == \E g \in operands : g
stop_gradient(g) == FALSE

Raised(cfg, error) ==
  [pc |-> "raised", cfg |-> cfg, in |-> NoInput, out |-> <<>>, error |-> error,
   diag |-> {}]

Yolo_Loss_call(cfg, in) ==
  LET pred_class == Tensor([a \in Anchors |->
                       class_gradient_trap_fwd(in.pred[a].cls, cfg.cls_normalizer)])
      pred_conf == obj_gradient_trap_fwd(Tensor([a \in Anchors |-> in.pred[a].conf]),
                                         cfg.obj_normalizer)
      dec == Tensor([a \in Anchors |-> get_predicted_box(cfg, in.pred[a], a)])
      pred_box == Tensor([a \in Anchors |-> dec[a].pred_box])
      yt == Tensor([a \in Anchors |-> YTrue(in, a)])
      true_conf == Tensor([a \in Anchors |-> yt[a].conf])
      diag == print_error(UNION {{pred_box[a].x, pred_box[a].y, pred_box[a].w,
                                  pred_box[a].h} : a \in Anchors}, "boxes")
                \cup print_error({pred_conf[a] : a \in Anchors}, "confidence")
                \cup print_error(UNION {{pred_class[a][c] : c \in DOMAIN pred_class[a]} :
                                          a \in Anchors}, "classes")
      masks == build_masks(cfg, pred_box, pred_class,
                           Tensor([n \in Instances |-> in.gt[n].box]),
                           Tensor([n \in Instances |-> in.gt[n].cls]))
      mask_loss == masks.ignore_mask
      iou == Tensor([a \in Anchors |-> IouPair(cfg, yt[a].box, pred_box[a])[1]])
      loss_box == Tensor([a \in Anchors |-> LossBoxCell(cfg, yt[a], dec[a], a)])
      class_loss == Tensor([a \in Anchors |-> ClassLossCell(cfg, yt[a], pred_class[a])])
      obj_mask == Tensor([a \in Anchors |-> ObjMask(true_conf[a], mask_loss[a])])
      bce == Tensor([a \in Anchors |-> Sym("bce", <<true_conf[a], pred_conf[a]>>)])
      conf_loss == Tensor([a \in Anchors |-> mul_no_nan_sym(obj_mask[a], bce[a])])
      red == reduce_losses(cfg.use_reduction_sum, <<loss_box>>, <<conf_loss>>,
                           <<class_loss>>)
      met == loss_metrics(<<pred_conf>>, <<true_conf>>, <<iou>>)
      \* the place of each returned value in the gradient graph
      g_box == InGraph({FromLabels, FromPred})
      g_conf == InGraph({stop_gradient(FromLabels), FromPred})
      g_class == InGraph({FromLabels, FromPred})
      g_loss == InGraph({g_class, g_conf, g_box})
  IN  \* in the new-coordinates variant line 359 reads matched_mask, a name that
      \* nothing in __call__ binds (its assignment is commented out)
      IF cfg.new_cords
        THEN [Raised(cfg, "NameError") EXCEPT !.diag = diag]
        ELSE [pc |-> "returned", cfg |-> cfg, in |-> in, error |-> "", diag |-> diag,
              out |-> [ignore_mask |-> mask_loss,
                       true_mask |-> masks.true_mask,
                       true_conf |-> true_conf,
                       iou |-> iou,
                       loss_box |-> loss_box,
                       class_loss |-> class_loss,
                       obj_mask |-> obj_mask,
                       obj_target |-> true_conf,
                       conf_loss |-> conf_loss,
                       sum_box |-> red.sum_box[1],
                       sum_class |-> red.sum_class[1],
                       sum_conf |-> red.sum_conf[1],
                       ret |-> <<red.loss, red.loss_box, red.conf_loss, red.class_loss,
                                 met.avg_iou, met.avg_obj, met.recall50>>,
                       ret_grad |-> <<g_loss, g_box, g_conf, g_class,
                                      stop_gradient(InGraph({FromPred, FromLabels})),
                                      stop_gradient(InGraph({FromPred, FromLabels})),
                                      stop_gradient(InGraph({FromPred, FromLabels}))>>]]

\* args keeps the arguments the object was constructed with
LossConstruct ==
  /\ loss.pc = "none"
  /\ \E lt \in LossTypeNames, nc \in BOOLEAN, hp \in HyperParams :
       loss' = [pc |-> "ready",
                cfg |-> Yolo_Loss_init(lt, nc, hp.truth_thresh, hp.iou_normalizer),
                args |-> [loss_type |-> lt],
                in |-> NoInput, out |-> <<>>, error |-> "", diag |-> {}]
  /\ UNCHANGED <<grad, task>>

LossCall ==
  /\ loss.pc = "ready"
  /\ \E in \in LossInputs :
       loss' = Yolo_Loss_call(loss.cfg, in) @@ [args |-> loss.args]
  /\ UNCHANGED <<grad, task>>

\* the step ends: the call's tensors are dropped, the object is kept
LossEndStep ==
  /\ loss.pc \in {"returned", "raised"}
  /\ loss' = [pc |-> "ready", cfg |-> loss.cfg, args |-> loss.args, in |-> NoInput,
              out |-> <<>>, error |-> "", diag |-> {}]
  /\ UNCHANGED <<grad, task>>

InitLoss ==
  /\ grad = GradIdle
  /\ loss = LossIdle
  /\ task = TaskIdle

NextLoss ==
  \/ LossConstruct
  \/ LossCall
  \/ LossEndStep

SpecLoss == InitLoss /\ [][NextLoss]_vars

(***************************************************************************)
(* Properties of Yolo_Loss.build_masks and Yolo_Loss.__call__ (SpecLoss).   *)
(***************************************************************************)
Returned == loss.pc = "returned"

\* the call has ended, by a return or by an exception
CallEnded == loss.pc \in {"returned", "raised"}

\* the decoded predicted box of anchor a in the call that returned
PredBoxOf(a) == get_predicted_box(loss.cfg, loss.in.pred[a], a).pred_box

\* the IoU of side-channel entry n with the decoded predicted box of anchor a
GTIou(n, a) == compute_iou(yxyx_to_xcycwh(loss.in.gt[n].box), PredBoxOf(a))

\* the predicted class of anchor a
PredClassOf(a) == Argmax(loss.in.pred[a].cls)

\* entry n overlaps anchor a's prediction by more than ignore_thresh
OverlapsAbove(n, a) == FLt(loss.cfg.ignore_thresh, GTIou(n, a))

\* the sample has no ground truth: every side-channel box is all-zero
NoGroundTruth ==
  \A n \in Instances : loss.in.gt[n].box = Corners(Zero, Zero, Zero, Zero)

\* C4: build_masks flags an anchor ignored (ignore_mask = 0) iff some
\* ground-truth box of the sample has IoU with the decoded predicted box above
\* ignore_thresh and a class id equal to the predicted class (argmax of the
\* class scores); otherwise ignore_mask = 1, however large the IoU with a ground
\* truth of another class.
C4_IgnoreIffOverlapAndSameClass ==
  Returned =>
    \A a \in Anchors :
      /\ loss.out.ignore_mask[a] \in {Zero, One}
      /\ loss.out.ignore_mask[a] = Zero
           <=> \E n \in Instances :
                 OverlapsAbove(n, a) /\ loss.in.gt[n].cls = PredClassOf(a)

\* one anchor is ignored by a same-class overlap, the other overlaps a ground
\* truth of another class above the threshold and is not ignored
C4_Witness ==
  /\ Returned
  /\ \E a, b \in Anchors :
       /\ loss.out.ignore_mask[a] = Zero
       /\ loss.out.ignore_mask[b] = One
       /\ \E n \in Instances : OverlapsAbove(n, b) /\ loss.in.gt[n].cls # PredClassOf(b)

\* C5: in the legacy variant the objectness weight of an anchor cell is 1 where
\* the true-objectness indicator is 1, whatever the ignore mask; where the
\* indicator is 0 it is 1 if the cell is not ignored and 0 if it is; and the
\* objectness target of a positive cell stays 1.
C5_LegacyObjectnessWeight ==
  (Returned /\ ~loss.cfg.new_cords) =>
    \A a \in Anchors :
      /\ loss.out.true_conf[a] = One
           => (loss.out.obj_mask[a] = One /\ loss.out.obj_target[a] = One)
      /\ loss.out.true_conf[a] = Zero
           => loss.out.obj_mask[a] =
                (IF \E n \in Instances :
                      OverlapsAbove(n, a) /\ loss.in.gt[n].cls = PredClassOf(a)
                   THEN Zero ELSE One)

\* two ground truths share a box with different classes; the positive cell of
\* the one is flagged ignored because its prediction has the class of the other,
\* and another cell without object is ignored
C5_Witness ==
  /\ Returned
  /\ ~loss.cfg.new_cords
  /\ \E n, m \in Instances :
       /\ loss.in.gt[n].box = loss.in.gt[m].box
       /\ loss.in.gt[n].cls # loss.in.gt[m].cls
       /\ loss.in.gt[n].box = GTBoxA
  /\ \E a, b \in Anchors :
       /\ loss.out.true_conf[a] = One
       /\ loss.out.ignore_mask[a] = Zero
       /\ loss.in.gt[loss.in.assign[a]].cls # PredClassOf(a)
       /\ loss.out.obj_mask[a] = One
       /\ loss.out.true_conf[b] = Zero
       /\ loss.out.obj_mask[b] = Zero

\* C6: for every loss_type the box loss and the class loss of an anchor cell are
\* exactly 0 wherever the true-objectness indicator is 0; for a sample whose
\* ground truth is all zero the summed box loss and class loss are exactly 0 and
\* every objectness target is 0.
C6_MaskedByTrueObjectness ==
  Returned =>
    /\ \A a \in Anchors :
         loss.out.true_conf[a] = Zero
           => (loss.out.loss_box[a] = Zero /\ loss.out.class_loss[a] = Zero)
    /\ NoGroundTruth
         => /\ loss.out.sum_box = Zero
            /\ loss.out.sum_class = Zero
            /\ loss.out.ret[2] = Zero
            /\ loss.out.ret[4] = Zero
            /\ \A a \in Anchors : loss.out.obj_target[a] = Zero

\* a sample without ground truth whose prediction holds a NaN, under the
\* squared-error box loss
C6_Witness ==
  /\ Returned
  /\ NoGroundTruth
  /\ loss.cfg.loss_type = 0
  /\ \E a \in Anchors : IsNan(loss.in.pred[a].sxy)
  /\ loss.out.sum_box = Zero

\* C7: when every side-channel box of the sample is all-zero, build_masks gives
\* ignore_mask = 1 (not ignored) for every anchor, whatever the predicted boxes
\* and classes are.
C7_NoGroundTruthNothingIgnored ==
  (Returned /\ NoGroundTruth) => \A a \in Anchors : loss.out.ignore_mask[a] = One

\* no ground truth, and a prediction whose class is the class id of the padding
C7_Witness ==
  /\ Returned
  /\ NoGroundTruth
  /\ \E a \in Anchors :
       /\ \E n \in Instances : loss.in.gt[n].cls = PredClassOf(a)
       /\ loss.out.ignore_mask[a] = One

\* the objectness target a truth override gives anchor a for entry n
OverrideTarget(n, a) == IF loss.cfg.new_cords THEN FSquare(GTIou(n, a)) ELSE GTIou(n, a)

\* C8 (as stated): a predicted box whose IoU with a ground truth exceeds
\* truth_thresh has its objectness target replaced by the IoU value (the squared
\* IoU in the new-coordinates variant).
C8_TruthOverride ==
  Returned =>
    \A a \in Anchors :
      (\E n \in Instances : loss.out.true_mask[n][a] = One)
        => \E n \in Instances :
             /\ loss.out.true_mask[n][a] = One
             /\ loss.out.obj_target[a] = OverrideTarget(n, a)

\* C9 (as stated): with new_cords enabled every call completes and returns the
\* 7-value result.
C9_NewCordsCallReturns ==
  (CallEnded /\ loss.cfg.new_cords) => (Returned /\ Len(loss.out.ret) = 7)

(***************************************************************************)
(* YoloTask (yolo/tasks/yolo.py): build_model, build_losses and the steps   *)
(* that call it.  The model's raw output is a dictionary keyed by the        *)
(* detection levels min_level..max_level; _loss_dict holds one Yolo_Loss per *)
(* key.                                                                      *)
(***************************************************************************)
\* parameters of Yolo_Loss.__call__ after self: y_true, y_pred, boxes, classes
CallArity == 4
\* arguments build_losses passes: labels, outputs[key]
BuildLossesArgs == 2
\* values __call__ returns
ReturnLen == 7
\* names build_losses unpacks the result into
UnpackTargets == 6

TaskLevels == <<"3", "4", "5">>

\* the keys of a model built for levels lo..hi, in the order of the dictionary
LevelKeys(lo, hi) == SubSeq(TaskLevels, lo, hi)

LevelRanges == {r \in (1..Len(TaskLevels)) \X (1..Len(TaskLevels)) : r[1] <= r[2]}

\* the labels of one batch: the ground truth of its sample
TaskLabels == GTLists

\* the outcome of line 198 for one key: the call of the level's loss with the
\* arguments build_losses passes, and the unpacking of what it returns
LevelLossCall(cfg, key) ==
  IF BuildLossesArgs # CallArity THEN [error |-> "TypeError"]
  ELSE IF cfg.new_cords THEN [error |-> "NameError"]
  ELSE IF ReturnLen # UnpackTargets THEN [error |-> "ValueError"]
  ELSE [error |-> "",
        loss |-> Sym("loss", <<key>>), loss_box |-> Sym("loss_box", <<key>>),
        loss_conf |-> Sym("loss_conf", <<key>>), loss_class |-> Sym("loss_class", <<key>>),
        avg_iou |-> Sym("avg_iou", <<key>>), recall50 |-> Sym("recall50", <<key>>)]

RECURSIVE build_losses_loop(_, _, _, _)
\* the loop of build_losses over outputs.keys(), from the i-th key on
build_losses_loop(loss_dict, keys, i, acc) ==
  IF i > Len(keys) THEN acc
  ELSE LET r == LevelLossCall(loss_dict[keys[i]], keys[i])
       IN  IF r.error # ""
             THEN [error |-> r.error, key |-> keys[i], loss |-> Zero, metrics |-> <<>>]
             ELSE build_losses_loop(loss_dict, keys, i + 1,
                    [error |-> "", key |-> "",
                     loss |-> Add(acc.loss, r.loss),
                     metrics |-> Append(acc.metrics, <<keys[i], r.recall50, r.avg_iou>>)])

\* YoloTask.build_losses(outputs, labels)
build_losses(loss_dict, keys, labels) ==
  build_losses_loop(loss_dict, keys, 1,
                    [error |-> "", key |-> "", loss |-> Zero, metrics |-> <<>>])

\* a step of kind "train" or "validation" on one batch
TaskStep(kind, labels) ==
  LET r == build_losses(task.loss_dict, task.keys, labels)
  IN  [pc |-> IF r.error = "" THEN "stepped" ELSE "raised",
       keys |-> task.keys, loss_dict |-> task.loss_dict,
       kind |-> kind, labels |-> labels,
       error |-> r.error, key |-> r.key, loss |-> r.loss, metrics |-> r.metrics]

TaskBuildModel ==
  /\ task.pc = "none"
  /\ \E r \in LevelRanges, lt \in LossTypeNames, nc \in BOOLEAN :
       task' = [pc |-> "built", keys |-> LevelKeys(r[1], r[2]),
                loss_dict |-> [k \in {TaskLevels[i] : i \in r[1]..r[2]} |->
                                 Yolo_Loss_init(lt, nc, One, One)],
                kind |-> "", labels |-> <<>>, error |-> "", key |-> "",
                loss |-> Zero, metrics |-> <<>>]
  /\ UNCHANGED <<grad, loss>>

TrainStep ==
  /\ task.pc = "built"
  /\ \E labels \in TaskLabels : task' = TaskStep("train", labels)
  /\ UNCHANGED <<grad, loss>>

ValidationStep ==
  /\ task.pc = "built"
  /\ \E labels \in TaskLabels : task' = TaskStep("validation", labels)
  /\ UNCHANGED <<grad, loss>>

\* the step is over (its logs returned, or its exception handled by the caller)
TaskEndStep ==
  /\ task.pc \in {"stepped", "raised"}
  /\ task' = [task EXCEPT !.pc = "built", !.kind = "", !.labels = <<>>, !.error = "",
                          !.key = "", !.loss = Zero, !.metrics = <<>>]
  /\ UNCHANGED <<grad, loss>>

InitTask ==
  /\ grad = GradIdle
  /\ loss = LossIdle
  /\ task = TaskIdle

NextTask ==
  \/ TaskBuildModel
  \/ TrainStep
  \/ ValidationStep
  \/ TaskEndStep

SpecTask == InitTask /\ [][NextTask]_vars

\* C10 (as stated): for every level key build_losses invokes the level's loss
\* with the inputs its call requires and consumes the tuple it returns, so that
\* a train_step or validation_step ends with a total loss and metrics and
\* without an argument-count or unpacking error.
C10_BuildLossesCompletes ==
  task.pc \in {"stepped", "raised"} =>
    /\ task.pc = "stepped"
    /\ task.error \notin {"TypeError", "ValueError"}
    /\ Len(task.metrics) = Len(task.keys)

\* C11 (as stated): of the seven values __call__ returns, every value except
\* the total loss is detached from the gradient graph.
C11_AllButTotalDetached ==
  Returned => \A i \in 2..Len(loss.out.ret_grad) : ~loss.out.ret_grad[i]

(***************************************************************************)
(* The reductions and the metrics of __call__ on a batch of several samples *)
(* (SpecBatch): steps 8 to 10 applied to per-cell values drawn from small   *)
(* sets, BatchSize samples of NumAnchors cells each.                        *)
(***************************************************************************)
BatchSize == 2

Batch == 1..BatchSize

\* the box, objectness and class loss of one cell
CellLosses ==
  {[box |-> Zero, conf |-> Zero, class |-> Zero],
   [box |-> One, conf |-> Zero, class |-> Zero],
   [box |-> Zero, conf |-> Two, class |-> Zero],
   [box |-> Zero, conf |-> Zero, class |-> Fin(4, 1)],
   [box |-> One, conf |-> Two, class |-> Fin(4, 1)]}

\* the true objectness, the objectness logit and the IoU of one cell
CellMetrics ==
  {[true_conf |-> Zero, pred_conf |-> Fin(-1, 1), iou |-> Zero],
   [true_conf |-> Zero, pred_conf |-> One, iou |-> Half],
   [true_conf |-> One, pred_conf |-> One, iou |-> Half],
   [true_conf |-> One, pred_conf |-> Fin(-1, 1), iou |-> One],
   [true_conf |-> Zero, pred_conf |-> NaN, iou |-> NaN]}

BatchIdle == [pc |-> "none"]

BatchReduce ==
  /\ loss.pc = "none"
  /\ \E urs \in BOOLEAN, cells \in [Batch -> [Anchors -> CellLosses]] :
       loss' = [pc |-> "reduced", use_reduction_sum |-> urs, cells |-> cells,
                red |-> reduce_losses(
                          urs,
                          Tensor([b \in Batch |-> Tensor([c \in Anchors |-> cells[b][c].box])]),
                          Tensor([b \in Batch |-> Tensor([c \in Anchors |-> cells[b][c].conf])]),
                          Tensor([b \in Batch |-> Tensor([c \in Anchors |-> cells[b][c].class])]))]
  /\ UNCHANGED <<grad, task>>

BatchMetrics ==
  /\ loss.pc = "none"
  /\ \E cells \in [Batch -> [Anchors -> CellMetrics]] :
       loss' = [pc |-> "measured", cells |-> cells,
                met |-> loss_metrics(
                          Tensor([b \in Batch |-> Tensor([c \in Anchors |-> cells[b][c].pred_conf])]),
                          Tensor([b \in Batch |-> Tensor([c \in Anchors |-> cells[b][c].true_conf])]),
                          Tensor([b \in Batch |-> Tensor([c \in Anchors |-> cells[b][c].iou])]))]
  /\ UNCHANGED <<grad, task>>

\* the values of the step are dropped
BatchEnd ==
  /\ loss.pc \in {"reduced", "measured"}
  /\ loss' = BatchIdle
  /\ UNCHANGED <<grad, task>>

InitBatch ==
  /\ grad = GradIdle
  /\ loss = BatchIdle
  /\ task = TaskIdle

NextBatch ==
  \/ BatchReduce
  \/ BatchMetrics
  \/ BatchEnd

SpecBatch == InitBatch /\ [][NextBatch]_vars

(***************************************************************************)
(* Properties of the reductions and the metrics (SpecBatch).                *)
(***************************************************************************)
Reduced == loss.pc = "reduced"
Measured == loss.pc = "measured"

RECURSIVE SumSet(_, _)
\* the sum of f over the set S
SumSet(f, S) ==
  IF S = {} THEN Zero
  ELSE LET x == CHOOSE y \in S : TRUE IN FAdd(f[x], SumSet(f, S \ {x}))

\* the sum of one of the three losses over the cells of sample b
SampleSum(b, field) == SumSet([c \in Anchors |-> loss.cells[b][c][field]], Anchors)

\* class + objectness + box loss of sample b
PerSample(b) ==
  FAdd(FAdd(SampleSum(b, "class"), SampleSum(b, "conf")), SampleSum(b, "box"))

BatchSumOf(f) == SumSet(f, Batch)
BatchMeanOf(f) == FDiv(SumSet(f, Batch), Fin(BatchSize, 1))

\* C12: the per-sample box, objectness and class losses are the sums over the
\* cells (spatial and anchor dimensions) of the sample; the total loss is the
\* sum over the batch of class + objectness + box when use_reduction_sum is true
\* and their batch mean otherwise; the box / conf / class sub-losses returned
\* are batch means in both modes.
C12_BatchReductions ==
  Reduced =>
    /\ \A b \in Batch :
         /\ loss.red.sum_box[b] = SampleSum(b, "box")
         /\ loss.red.sum_conf[b] = SampleSum(b, "conf")
         /\ loss.red.sum_class[b] = SampleSum(b, "class")
    /\ loss.red.loss =
         (IF loss.use_reduction_sum THEN BatchSumOf([b \in Batch |-> PerSample(b)])
                                    ELSE BatchMeanOf([b \in Batch |-> PerSample(b)]))
    /\ loss.red.loss_box = BatchMeanOf([b \in Batch |-> SampleSum(b, "box")])
    /\ loss.red.conf_loss = BatchMeanOf([b \in Batch |-> SampleSum(b, "conf")])
    /\ loss.red.class_loss = BatchMeanOf([b \in Batch |-> SampleSum(b, "class")])

\* a sum-reduced batch whose samples differ and whose sum is not its mean
C12_Witness ==
  /\ Reduced
  /\ loss.use_reduction_sum
  /\ \E b1, b2 \in Batch : PerSample(b1) # PerSample(b2)
  /\ loss.red.loss # BatchMeanOf([b \in Batch |-> PerSample(b)])
  /\ loss.red.loss_box # Zero
  /\ loss.red.loss_box # BatchSumOf([b \in Batch |-> SampleSum(b, "box")])

\* the true-object cells of sample b, and those of them whose predicted
\* objectness after the sigmoid exceeds 0.5
TrueCellsOf(b) == {c \in Anchors : loss.cells[b][c].true_conf = One}
HitCellsOf(b) ==
  {c \in TrueCellsOf(b) : FLt(Half, Sigmoid(loss.cells[b][c].pred_conf))}

NumTrueCells == Cardinality(UNION {{<<b, c>> : c \in TrueCellsOf(b)} : b \in Batch})
NumHitCells == Cardinality(UNION {{<<b, c>> : c \in HitCellsOf(b)} : b \in Batch})

\* C13 (as stated): recall50 is the fraction of the true-object cells of the
\* batch whose predicted objectness after the sigmoid exceeds 0.5, also when some
\* samples hold no true object.
C13_RecallIsBatchFraction ==
  Measured =>
    loss.met.recall50 =
      (IF NumTrueCells = 0 THEN Zero ELSE Fin(NumHitCells, NumTrueCells))

\* the recall of sample b: 0 for a sample without true object
SampleRecall(b) ==
  IF TrueCellsOf(b) = {} THEN Zero
  ELSE Fin(Cardinality(HitCellsOf(b)), Cardinality(TrueCellsOf(b)))

\* no prediction of the batch is a NaN
BatchNanFree ==
  \A b \in Batch, c \in Anchors :
    ~IsNan(loss.cells[b][c].pred_conf) /\ ~IsNan(loss.cells[b][c].iou)

\* C14: the divisions of the metrics are safe: a sample without true-object cell
\* contributes recall 0, recall50 is always finite, and for a batch without any
\* true-object cell (denominator 0, numerator 0) recall50, avg_iou and avg_obj
\* are 0, not NaN or Inf.
C14_MetricDivisionsSafe ==
  Measured =>
    /\ IsFinite(loss.met.recall50)
    /\ loss.met.recall50 = BatchMeanOf([b \in Batch |-> SampleRecall(b)])
    /\ NumTrueCells = 0 => loss.met.recall50 = Zero
    /\ (NumTrueCells = 0 /\ BatchNanFree)
         => (loss.met.avg_iou = Zero /\ loss.met.avg_obj = Zero)

\* a batch without any true-object cell, with predictions above and below 0.5
C14_Witness ==
  /\ Measured
  /\ NumTrueCells = 0
  /\ BatchNanFree
  /\ \E b \in Batch, c \in Anchors : loss.cells[b][c].pred_conf = One
  /\ \E b \in Batch, c \in Anchors : loss.cells[b][c].iou = Half
  /\ loss.met.avg_iou = Zero

(***************************************************************************)
(* Properties of the box loss, the construction and the diagnostics        *)
(* (SpecLoss).                                                              *)
(***************************************************************************)
\* the squared-error box term of anchor a: squared error of the encoded xy and
\* wh targets, times (2 - gt_w * gt_h) * iou_normalizer
MseTerm(a) ==
  LET tb == YTrue(loss.in, a).box
      t == scale_ground_truth_box(tb, a)
      p == get_predicted_box(loss.cfg, loss.in.pred[a], a)
      err_xy == FAdd(FSquare(FSub(t.x, p.pred_xy)), FSquare(FSub(t.y, p.pred_xy)))
      err_wh == FAdd(FSquare(FSub(t.w, p.pred_wh)), FSquare(FSub(t.h, p.pred_wh)))
  IN  FMul(FMul(FAdd(err_xy, err_wh), FSub(Two, FMul(tb.w, tb.h))),
           loss.cfg.iou_normalizer)

\* the box term the loss-type name selects for anchor a
SelectedBoxTerm(a) ==
  CASE loss.args.loss_type = "giou"
         -> FSub(One, compute_giou(YTrue(loss.in, a).box, PredBoxOf(a))[2])
    [] loss.args.loss_type = "ciou"
         -> FSub(One, compute_ciou(YTrue(loss.in, a).box, PredBoxOf(a))[2])
    [] loss.args.loss_type = "mse" -> MseTerm(a)

\* C15: the box loss of a cell is true_objectness * (1 - GIoU) for 'giou',
\* true_objectness * (1 - CIoU) for 'ciou', and true_objectness * (squared error
\* of the encoded xy targets + squared error of the encoded wh targets)
\* * (2 - gt_w * gt_h) * iou_normalizer for 'mse'.
C15_BoxLossBySelector ==
  (Returned /\ loss.args.loss_type \in {"mse", "giou", "ciou"}) =>
    \A a \in Anchors :
      loss.out.loss_box[a] =
        (IF loss.out.true_conf[a] = Zero THEN Zero ELSE SelectedBoxTerm(a))

\* a positive cell whose GIoU and CIoU differ, under 'giou'
C15_Witness ==
  /\ Returned
  /\ loss.args.loss_type = "giou"
  /\ \E a \in Anchors :
       /\ loss.out.true_conf[a] = One
       /\ loss.out.loss_box[a] # Zero
       /\ compute_giou(YTrue(loss.in, a).box, PredBoxOf(a))[2]
            # compute_ciou(YTrue(loss.in, a).box, PredBoxOf(a))[2]

\* C16 (as stated): no object exists that was constructed with a loss_type other
\* than 'mse', 'giou' or 'ciou': the construction is rejected.
C16_InvalidLossTypeRejected ==
  loss.pc \in {"ready", "returned", "raised"} =>
    loss.args.loss_type \in {"mse", "giou", "ciou"}

(***************************************************************************)
(* The reshape and the split of the raw predictions at the head of         *)
(* __call__ (SpecShape): y_pred of `channels` channels per grid cell is     *)
(* reshaped to [batch, width, height, num, -1], num the anchor count of     *)
(* y_true, and split into [4, 1, -1].                                       *)
(***************************************************************************)
\* classes of the level
MaxClasses == 3
\* anchors of the level
MaxLevelAnchors == 3
\* channels of the raw prediction
MaxChannels == 24

\* the outcomes of the reshape and the split: an error, or the number of class
\* channels pred_class comes out with.  With no class channel left the argmax
\* of build_masks reduces over an empty axis; both outcomes are kept for it.
SplitOutcomes(channels, num) ==
  IF channels % num # 0
    THEN {[error |-> "InvalidArgumentError", class_channels |-> 0]}
  ELSE IF channels \div num < 4 + 1
    THEN {[error |-> "InvalidArgumentError", class_channels |-> 0]}
  ELSE IF channels \div num = 4 + 1
    THEN {[error |-> "InvalidArgumentError", class_channels |-> 0],
          [error |-> "", class_channels |-> 0]}
  ELSE {[error |-> "", class_channels |-> channels \div num - (4 + 1)]}

\* channels of the last dimension of y_true
MaxTrueChannels == 8

\* the split of y_true into [4, 1, 1, 1]: box, objectness, class id and
\* best-match flag, or the error of a last dimension the sizes do not add up to
SplitYTrue(true_channels) ==
  IF true_channels # 4 + 1 + 1 + 1
    THEN [error |-> "InvalidArgumentError", parts |-> <<>>]
    ELSE [error |-> "", parts |-> <<4, 1, 1, 1>>]

\* a call on a raw prediction of `channels` channels, by an object of `classes`
\* classes, with y_true of `num` anchors and `true_channels` channels
ShapeCall ==
  /\ loss.pc = "none"
  /\ \E classes \in 1..MaxClasses, num \in 1..MaxLevelAnchors, channels \in 1..MaxChannels,
        true_channels \in 1..MaxTrueChannels :
       \E o \in SplitOutcomes(channels, num) :
         LET t == IF o.error = "" THEN SplitYTrue(true_channels)
                  ELSE [error |-> "", parts |-> <<>>]
         IN  loss' = [pc |-> IF o.error = "" /\ t.error = "" THEN "split" ELSE "split_raised",
                      classes |-> classes, num |-> num, channels |-> channels,
                      true_channels |-> true_channels,
                      error |-> IF o.error # "" THEN o.error ELSE t.error,
                      pred_error |-> o.error,
                      \* tf.one_hot takes its depth from pred_class
                      class_channels |-> o.class_channels,
                      one_hot_depth |-> o.class_channels,
                      true_parts |-> t.parts]
  /\ UNCHANGED <<grad, task>>

ShapeEnd ==
  /\ loss.pc \in {"split", "split_raised"}
  /\ loss' = [pc |-> "none"]
  /\ UNCHANGED <<grad, task>>

InitShape ==
  /\ grad = GradIdle
  /\ loss = [pc |-> "none"]
  /\ task = TaskIdle

NextShape ==
  \/ ShapeCall
  \/ ShapeEnd

SpecShape == InitShape /\ [][NextShape]_vars

\* C17 (as stated): when the channel count of the raw prediction differs from
\* num_anchors * (4 + 1 + num_classes), the call fails with an error and never
\* goes on with another number of class channels.
C17_ChannelMismatchFails ==
  (loss.pc \in {"split", "split_raised"}
     /\ loss.channels # loss.num * (4 + 1 + loss.classes))
    => loss.pc = "split_raised"

\* C24 (as stated): a ground-truth tensor whose last dimension is 4 + 1 + 1 is
\* accepted and decomposed, without a shape error, into box, objectness, class
\* id and best-anchor flag.
C24_SixChannelTruthAccepted ==
  (loss.pc \in {"split", "split_raised"} /\ loss.pred_error = ""
     /\ loss.true_channels = 4 + 1 + 1)
    => (loss.pc = "split" /\ Len(loss.true_parts) = 4)

\* some raw objectness of the call that returned is NaN
ConfHasNan == \E a \in Anchors : IsNan(loss.in.pred[a].conf)

\* C18 (as stated): a NaN in the decoded boxes, the objectness or the class
\* predictions makes the call emit a diagnostic naming the tensor, and the call
\* still returns without raising; with no NaN no diagnostic is emitted.
C18_NanDiagnosticAndReturn ==
  CallEnded =>
    /\ loss.diag \subseteq {"boxes", "confidence", "classes"}
    /\ Returned => (("confidence" \in loss.diag) <=> ConfHasNan)
    /\ loss.diag # {} => Returned

(***************************************************************************)
(* The legacy codec on its own (SpecCodec): a box of y_true is encoded by   *)
(* _scale_ground_truth_box and the targets are decoded as get_predicted_box *)
(* decodes pred_xy and pred_wh.                                             *)
(***************************************************************************)
\* grid resolutions, and the grid points of a resolution along one axis
Resolutions == {One, Two}
GridPointsOf(res) == IF res = One THEN {Zero} ELSE {Zero, Half}

\* offsets of a box centre inside its cell, in cell units
CellOffsets == {Zero, Fin(1, 4), Fin(3, 4)}

\* widths and heights of a box of y_true; an empty cell holds the zero box
BoxExtents == {Zero, Fin(1, 4), Half, One}
ZeroBox == Box(Zero, Zero, Zero, Zero)

ScaleVals == {One, Fin(3, 2), Two}

\* the boxes y_true holds at the cell of grid point g: a box whose centre lies
\* in the cell, or the zero box of a cell without object
CellBoxes(width, height, g) ==
  {Box(FAdd(g.x, FDiv(ox, width)), FAdd(g.y, FDiv(oy, height)), w, h) :
     ox \in CellOffsets, oy \in CellOffsets, w \in BoxExtents, h \in BoxExtents}
  \cup {ZeroBox}

CodecEncode ==
  /\ loss.pc = "none"
  /\ \E width \in Resolutions, height \in Resolutions, a \in Anchors, s \in ScaleVals :
       \E gx \in GridPointsOf(width), gy \in GridPointsOf(height) :
         \E box \in CellBoxes(width, height, [x |-> gx, y |-> gy]) :
           loss' = [pc |-> "encoded", box |-> box, width |-> width, height |-> height,
                    anchor_grid |-> AnchorWH(a), grid_points |-> [x |-> gx, y |-> gy],
                    scale_x_y |-> s,
                    target |-> scale_ground_truth_box_at(box, width, height, AnchorWH(a),
                                                         [x |-> gx, y |-> gy]),
                    pred_lo |-> scaled_sigmoid(Sigmoid(NInf), s),
                    pred_hi |-> scaled_sigmoid(Sigmoid(PInf), s),
                    decoded |-> ZeroBox]
  /\ UNCHANGED <<grad, task>>

CodecDecode ==
  /\ loss.pc = "encoded"
  /\ loss' = [loss EXCEPT !.pc = "decoded",
                          !.decoded = decode_box([x |-> loss.target.x, y |-> loss.target.y],
                                                 [w |-> loss.target.w, h |-> loss.target.h],
                                                 loss.width, loss.height,
                                                 loss.anchor_grid, loss.grid_points)]
  /\ UNCHANGED <<grad, task>>

CodecEnd ==
  /\ loss.pc = "decoded"
  /\ loss' = [pc |-> "none"]
  /\ UNCHANGED <<grad, task>>

InitCodec ==
  /\ grad = GradIdle
  /\ loss = [pc |-> "none"]
  /\ task = TaskIdle

NextCodec ==
  \/ CodecEncode
  \/ CodecDecode
  \/ CodecEnd

SpecCodec == InitCodec /\ [][NextCodec]_vars

Decoded == loss.pc = "decoded"

\* the box has a positive width and height
PositiveExtent == FLt(Zero, loss.box.w) /\ FLt(Zero, loss.box.h)

\* the centre of the box lies at or above its grid point on both axes
AtOrAboveGridPoint ==
  /\ ~FLt(loss.box.x, loss.grid_points.x)
  /\ ~FLt(loss.box.y, loss.grid_points.y)

\* C19 (as stated): decoding the encoded target returns the original box, for
\* all boxes, those of zero width or height and those whose centre lies below
\* the grid point included.
C19_RoundTripAllBoxes == Decoded => loss.decoded = loss.box

\* C19 (amended): decoding the encoded target returns the original box when the
\* box has a positive width and height and its centre is not below the grid
\* point.
C19_RoundTrip == (Decoded /\ PositiveExtent /\ AtOrAboveGridPoint) => loss.decoded = loss.box

C19_Witness ==
  /\ Decoded /\ PositiveExtent /\ AtOrAboveGridPoint
  /\ loss.width = Two /\ loss.grid_points.x = Half
  /\ FLt(loss.grid_points.x, loss.box.x)
  /\ loss.box.w # loss.anchor_grid.w
  /\ loss.decoded = loss.box

Encoded == loss.pc \in {"encoded", "decoded"}

\* v lies in the range the scaled sigmoid of the call's scale_x_y can take
InScaledRange(v) == FLe(loss.pred_lo, v) /\ FLe(v, loss.pred_hi)

\* C20: for every scale_x_y >= 1 the xy target of _scale_ground_truth_box lies in
\* the range of sigmoid * scale_x_y - 0.5 * (scale_x_y - 1), the range of the
\* pred_xy it is compared with, and a pred_xy equal to the target decodes to the
\* centre of the box.
C20_TargetInScaledRange ==
  /\ Encoded => (InScaledRange(loss.target.x) /\ InScaledRange(loss.target.y))
  /\ (Decoded /\ AtOrAboveGridPoint) =>
       (loss.decoded.x = loss.box.x /\ loss.decoded.y = loss.box.y)

C20_Witness ==
  /\ Decoded
  /\ loss.scale_x_y = Two
  /\ loss.pred_lo = Fin(-1, 2) /\ loss.pred_hi = Fin(3, 2)
  /\ loss.target.x = Fin(3, 4) /\ loss.target.y = Fin(1, 4)
  /\ loss.width = Two /\ loss.grid_points.x = Half
  /\ loss.decoded.x = loss.box.x

(***************************************************************************)
(* The new-coordinates decoder on its own (SpecNewCords): two raw width/    *)
(* height inputs are decoded at the same anchor.                            *)
(***************************************************************************)
\* largest magnitude of a finite raw input
RawMax == 6

RawVals == {Fin(i, 1) : i \in -RawMax..RawMax} \cup {NInf, PInf, NaN}

Four == Fin(4, 1)

\* the wh decode of the legacy codec put in place of the new one
decode_wh_newcords_exp(pred_wh, anchor_grid) ==
  [w |-> FMul(Exp(pred_wh), anchor_grid.w), h |-> FMul(Exp(pred_wh), anchor_grid.h)]

\* box_wh of get_predicted_box_newcords: 4 * square(pred_wh) * anchor_grid
decode_wh_newcords(pred_wh, anchor_grid) ==
  [w |-> FMul(FMul(Four, FSquare(pred_wh)), anchor_grid.w),
   h |-> FMul(FMul(Four, FSquare(pred_wh)), anchor_grid.h)]

\* get_predicted_box_newcords at anchor a: <<pred_xy, pred_wh, pred_box>>
get_predicted_box_newcords(cfg, p, a) ==
  LET sig == scaled_sigmoid(p.sxy, cfg.scale_x_y)
      pred_xy == box_gradient_trap_fwd(sig, cfg.iou_normalizer, cfg.max_delta)
      pred_wh == box_gradient_trap_fwd(Sigmoid(p.wh), cfg.iou_normalizer, cfg.max_delta)
      box_wh == decode_wh_newcords(pred_wh, AnchorWH(a))
  IN  [pred_xy |-> pred_xy, pred_wh |-> pred_wh,
       pred_box |-> Box(FAdd(FDiv(pred_xy, fwidth), GridPoint.x),
                        FAdd(FDiv(pred_xy, fheight), GridPoint.y),
                        box_wh.w, box_wh.h)]

NewCordsDecode ==
  /\ loss.pc = "none"
  /\ \E r1 \in RawVals, r2 \in RawVals, a \in Anchors, hp \in HyperParams :
       LET cfg == Yolo_Loss_init("ciou", TRUE, hp.truth_thresh, hp.iou_normalizer)
       IN  loss' = [pc |-> "newcords", cfg |-> cfg, raw |-> <<r1, r2>>,
                    anchor_grid |-> AnchorWH(a),
                    box |-> <<get_predicted_box_newcords(cfg, [sxy |-> Half, wh |-> r1], a).pred_box,
                              get_predicted_box_newcords(cfg, [sxy |-> Half, wh |-> r2], a).pred_box>>]
  /\ UNCHANGED <<grad, task>>

NewCordsEnd ==
  /\ loss.pc = "newcords"
  /\ loss' = [pc |-> "none"]
  /\ UNCHANGED <<grad, task>>

InitNewCords ==
  /\ grad = GradIdle
  /\ loss = [pc |-> "none"]
  /\ task = TaskIdle

NextNewCords ==
  \/ NewCordsDecode
  \/ NewCordsEnd

SpecNewCords == InitNewCords /\ [][NextNewCords]_vars

NewCordsDecoded == loss.pc = "newcords"

\* C21: in the new-coordinates codec the decoded width and height do not
\* decrease when the raw input grows, and never exceed 4 * anchor_wh.
C21_NewCordsMonotoneBounded ==
  NewCordsDecoded =>
    /\ FLe(loss.raw[1], loss.raw[2]) =>
         (FLe(loss.box[1].w, loss.box[2].w) /\ FLe(loss.box[1].h, loss.box[2].h))
    /\ \A i \in 1..2 :
         /\ ~FLt(FMul(Four, loss.anchor_grid.w), loss.box[i].w)
         /\ ~FLt(FMul(Four, loss.anchor_grid.h), loss.box[i].h)

C21_Witness ==
  /\ NewCordsDecoded
  /\ loss.raw[1] = One /\ loss.raw[2] = PInf
  /\ FLt(loss.anchor_grid.w, loss.box[1].w)
  /\ FLt(loss.box[1].w, loss.box[2].w)
  /\ loss.box[2].w = FMul(Four, loss.anchor_grid.w)

(***************************************************************************)
(* YoloHead (yolo/modeling/heads/yolo_head.py), SpecHead: construction,     *)
(* build on the dictionary of the decoder's outputs, the properties, and    *)
(* the split the loss makes of the head's output.  The head is held in      *)
(* `task`.                                                                  *)
(***************************************************************************)
\* largest output_extras
MaxOutputExtras == 1

\* keys of the decoder's outputs, int(key) and str(i)
HeadKeys == {"3", "4", "5"}
IntOf(key) == CASE key = "3" -> 3 [] key = "4" -> 4 [] key = "5" -> 5
StrOf(i) == CHOOSE key \in HeadKeys : IntOf(key) = i

SetMin(S) == CHOOSE m \in S : \A x \in S : m <= x
SetMax(S) == CHOOSE m \in S : \A x \in S : x <= m

\* the placeholder of a value that is None or was never assigned; a head keeps
\* the names of the attributes it has assigned (attrs) and of those that hold
\* None (is_none)
NoValue == <<>>
NoRead == [prop |-> "", error |-> "", message |-> "", value |-> NoValue]

XYScaleBases == {"default_value", "default_base"}

\* YoloHead.__init__
YoloHead_init(classes, boxes_per_level, output_extras, xy_exponential, xy_scale_base) ==
  [pc |-> "head_new",
   classes |-> classes, boxes_per_level |-> boxes_per_level,
   output_extras |-> output_extras,
   output_conv |-> (classes + output_extras + 5) * boxes_per_level,
   masks |-> NoValue, path_scales |-> NoValue, x_y_scales |-> NoValue,
   is_none |-> {"masks", "path_scales", "x_y_scales"},
   attrs |-> {"classes", "boxes_per_level", "output_extras", "output_conv", "masks",
              "path_scales", "x_y_scales", "xy_exponential", "exp_base",
              "xy_scale_base"},
   xy_exponential |-> xy_exponential, exp_base |-> 2, xy_scale_base |-> xy_scale_base,
   key_list |-> {}, min_level |-> 0, max_level |-> 0,
   read |-> NoRead, split |-> NoValue]

\* the loop of _get_filtering_attributes without the advance of start
RECURSIVE filtering_loop_nostart(_, _, _, _, _)
filtering_loop_nostart(head, base, i, start, acc) ==
  IF i > head.max_level THEN acc
  ELSE filtering_loop_nostart(head, base, i + 1, start,
         [boxes |-> acc.boxes @@ (StrOf(i) :> [j \in 1..head.boxes_per_level |-> start + j - 1]),
          path_scales |-> acc.path_scales @@ (StrOf(i) :> Pow2(i)),
          scale_x_y |-> acc.scale_x_y @@
             (StrOf(i) :> IF head.xy_exponential
                            THEN FAdd(One, FMul(base, Fin(Pow2(i), 1)))
                            ELSE One)])

\* the loop of _get_filtering_attributes over range(min_level, max_level + 1)
RECURSIVE filtering_loop(_, _, _, _, _)
filtering_loop(head, base, i, start, acc) ==
  IF i > head.max_level THEN acc
  ELSE filtering_loop(head, base, i + 1, start + head.boxes_per_level,
         [boxes |-> acc.boxes @@ (StrOf(i) :> [j \in 1..head.boxes_per_level |-> start + j - 1]),
          path_scales |-> acc.path_scales @@ (StrOf(i) :> Pow2(i)),
          scale_x_y |-> acc.scale_x_y @@
             (StrOf(i) :> IF head.xy_exponential
                            THEN FAdd(One, FMul(base, Fin(Pow2(i), 1)))
                            ELSE One)])

\* YoloHead._get_filtering_attributes on a head whose levels are set
get_filtering_attributes(head) ==
  LET levels == head.boxes_per_level * (head.max_level - head.min_level + 1)
  IN  IF head.xy_scale_base = "default_base" /\ levels - 1 = 0
        THEN [head EXCEPT !.pc = "head_build_raised",
                          !.read = [NoRead EXCEPT !.error = "ZeroDivisionError"]]
        ELSE LET base == IF head.xy_scale_base = "default_base"
                           THEN FDiv(Fin(1, 20), Fin(levels - 1, 1))
                           ELSE Fin(1, 160)
                 r == filtering_loop(head, base, head.min_level, 0,
                                     [boxes |-> <<>>, path_scales |-> <<>>, scale_x_y |-> <<>>])
             IN  [head EXCEPT !.pc = "head_built", !.masks = r.boxes,
                              !.path_scales = r.path_scales, !.x_y_scales = r.scale_x_y,
                              !.is_none = {}]

\* YoloHead.build(inputs), keys the keys of inputs
YoloHead_build(head, keys) ==
  get_filtering_attributes(
    [head EXCEPT !.key_list = keys,
                 !.min_level = SetMin({IntOf(k) : k \in keys}),
                 !.max_level = SetMax({IntOf(k) : k \in keys}),
                 !.attrs = head.attrs \cup {"key_list", "min_level", "max_level", "head"},
                 !.read = NoRead])

NotBuilt(what) ==
  [prop |-> "", error |-> "Exception",
   message |-> "model has to be built before " \o what \o " can be determined",
   value |-> NoValue]

\* the properties of YoloHead
YoloHead_property(head, prop) ==
  CASE prop = "output_depth" ->
         [NoRead EXCEPT !.value = (head.classes + head.output_extras + 5) * head.boxes_per_level]
    [] prop = "masks" ->
         IF "masks" \in head.is_none THEN NotBuilt("the masks")
         ELSE [NoRead EXCEPT !.value = head.masks]
    [] prop = "path_scales" ->
         IF "path_scales" \in head.is_none THEN NotBuilt("the path_scales")
         ELSE [NoRead EXCEPT !.value = head.path_scales]
    [] prop = "scale_xy" ->
         IF "x_y_scales" \in head.is_none THEN NotBuilt("the x_y_scales")
         ELSE [NoRead EXCEPT !.value = head.x_y_scales]
    [] prop = "num_boxes" ->
         IF "min_level" \notin head.attrs \/ "max_level" \notin head.attrs
           THEN [NoRead EXCEPT !.error = "AttributeError"]
         ELSE IF "min_level" \in head.is_none \/ "max_level" \in head.is_none
           THEN NotBuilt("number of boxes")
         ELSE [NoRead EXCEPT !.value =
                 (head.max_level - head.min_level + 1) * head.boxes_per_level]

HeadProperties == {"output_depth", "masks", "path_scales", "scale_xy", "num_boxes"}

HeadConstruct ==
  /\ task.pc = "none"
  /\ \E classes \in 1..MaxClasses, bpl \in 1..MaxLevelAnchors,
        extras \in 0..MaxOutputExtras, xy_exponential \in BOOLEAN,
        xy_scale_base \in XYScaleBases :
       task' = YoloHead_init(classes, bpl, extras, xy_exponential, xy_scale_base)
  /\ UNCHANGED <<grad, loss>>

HeadBuild ==
  /\ task.pc = "head_new"
  /\ \E keys \in (SUBSET HeadKeys) \ {{}} : task' = YoloHead_build(task, keys)
  /\ UNCHANGED <<grad, loss>>

HeadRead ==
  /\ task.pc \in {"head_new", "head_built", "head_build_raised"}
  /\ \E prop \in HeadProperties :
       task' = [task EXCEPT !.read = [YoloHead_property(task, prop) EXCEPT !.prop = prop]]
  /\ UNCHANGED <<grad, loss>>

\* the loss of one level splits the head's output of that level: num is the
\* length of the level's mask
HeadLossSplit ==
  /\ task.pc = "head_built"
  /\ \E key \in task.key_list :
       \E o \in SplitOutcomes(YoloHead_property(task, "output_depth").value,
                              Len(task.masks[key])) :
         task' = [task EXCEPT !.split = [key |-> key, error |-> o.error,
                                         box |-> 4, conf |-> 1,
                                         class |-> o.class_channels]]
  /\ UNCHANGED <<grad, loss>>

HeadDrop ==
  /\ task.pc \in {"head_new", "head_built", "head_build_raised"}
  /\ task' = TaskIdle
  /\ UNCHANGED <<grad, loss>>

InitHead ==
  /\ grad = GradIdle
  /\ loss = LossIdle
  /\ task = TaskIdle

NextHead ==
  \/ HeadConstruct
  \/ HeadBuild
  \/ HeadRead
  \/ HeadLossSplit
  \/ HeadDrop

SpecHead == InitHead /\ [][NextHead]_vars

HeadBuilt == task.pc = "head_built"

\* the anchor indices of the mask of a level
MaskSet(key) == {task.masks[key][j] : j \in DOMAIN task.masks[key]}

\* C22: the per-level masks built by YoloHead are pairwise disjoint and their
\* union is 0..num_boxes - 1, num_boxes = (max_level - min_level + 1) *
\* boxes_per_level, so every anchor index lies in the mask of exactly one level.
C22_MasksPartitionAnchors ==
  HeadBuilt =>
    LET num_boxes == YoloHead_property(task, "num_boxes").value
    IN  /\ num_boxes = (task.max_level - task.min_level + 1) * task.boxes_per_level
        /\ \A k1, k2 \in DOMAIN task.masks :
             k1 # k2 => MaskSet(k1) \cap MaskSet(k2) = {}
        /\ UNION {MaskSet(k) : k \in DOMAIN task.masks} = 0..(num_boxes - 1)
        /\ \A n \in 0..(num_boxes - 1) :
             Cardinality({k \in DOMAIN task.masks : n \in MaskSet(k)}) = 1

C22_Witness ==
  /\ HeadBuilt
  /\ task.boxes_per_level = 3
  /\ task.key_list = {"3", "4", "5"}
  /\ task.masks["5"] = <<6, 7, 8>>

\* the loss has split the head's output of one level
HeadSplit == HeadBuilt /\ DOMAIN task.split # {}

\* C23 (as stated): for every classes C, output_extras and boxes_per_level the
\* box, objectness and class parts the loss splits out of one anchor's channels
\* have sizes 4, 1 and C, summing to the per-anchor width 4 + 1 + C of the
\* head's output (output depth / boxes_per_level).
C23_SplitSizesMatchHead ==
  HeadSplit =>
    LET per_anchor == YoloHead_property(task, "output_depth").value \div task.boxes_per_level
    IN  /\ task.split.error = ""
        /\ task.split.box = 4 /\ task.split.conf = 1
        /\ task.split.class = task.classes
        /\ task.split.box + task.split.conf + task.split.class = per_anchor
        /\ per_anchor = 4 + 1 + task.classes

(***************************************************************************)
(* Calls of one Yolo_Loss by several replicas (SpecReplica).  The object is *)
(* held in `loss`, the replicas' calls in `task`.  A call reads the         *)
(* object's fields in two steps, up to build_masks and after it, and the     *)
(* calls of different replicas interleave between the steps.                 *)
(***************************************************************************)
Replicas == 1..2

\* the shards of the replicas
ReplicaInputs ==
  {[gt |-> [n \in Instances |-> IF n = 1 THEN [box |-> GTBoxA, cls |-> c] ELSE PadEntry],
    pred |-> [a \in Anchors |-> p],
    assign |-> [a \in Anchors |-> IF a = 1 THEN 1 ELSE 0]] :
     c \in ClassIds, p \in {q \in PredSet : q.conf = One}}

RepIdle == [pc |-> "idle", in |-> NoInput, seen |-> <<>>, result |-> <<>>]

\* the call of replica r
RepOf(r) == IF task.pc = "none" THEN RepIdle ELSE task.rep[r]

\* the fields read up to build_masks, and the fields read after it
FieldsBeforeLosses ==
  {"ignore_thresh", "truth_thresh", "scale_x_y", "iou_normalizer", "max_delta",
   "cls_normalizer", "obj_normalizer"}
FieldsOfLosses == {"loss_type", "new_cords", "use_reduction_sum"}

\* a call that leaves the loss type it dispatched on in the object
call_writes_store(cfg, in) == [cfg EXCEPT !.loss_type = 0]

\* the assignments __call__ makes to the fields of the object: none
call_writes(cfg, in) == cfg

\* what a call gives its caller
ResultOf(r) ==
  [pc |-> r.pc, error |-> r.error, diag |-> r.diag,
   ret |-> IF r.pc = "returned" THEN r.out.ret ELSE <<>>]

ReplicaEnter ==
  /\ loss.pc = "ready"
  /\ \E r \in Replicas, in \in ReplicaInputs :
       /\ RepOf(r).pc = "idle"
       /\ task' = [pc |-> "replicas",
                   cfg0 |-> IF task.pc = "none" THEN loss.cfg ELSE task.cfg0,
                   overlap |-> IF task.pc = "none" THEN FALSE
                               ELSE task.overlap
                                      \/ \E q \in Replicas : RepOf(q).pc = "running",
                   rep |-> [q \in Replicas |->
                              IF q = r
                                THEN [pc |-> "running", in |-> in,
                                      seen |-> [f \in FieldsBeforeLosses |-> loss.cfg[f]],
                                      result |-> <<>>]
                                ELSE RepOf(q)]]
  /\ UNCHANGED <<grad, loss>>

ReplicaFinish ==
  /\ loss.pc = "ready" /\ task.pc = "replicas"
  /\ \E r \in Replicas :
       /\ task.rep[r].pc = "running"
       /\ LET cfg == [f \in DOMAIN loss.cfg |->
                        IF f \in FieldsBeforeLosses THEN task.rep[r].seen[f]
                        ELSE loss.cfg[f]]
          IN  /\ task' = [task EXCEPT !.rep[r].pc = "done",
                                      !.rep[r].result =
                                         ResultOf(Yolo_Loss_call(cfg, task.rep[r].in))]
              /\ loss' = [loss EXCEPT !.cfg = call_writes(loss.cfg, task.rep[r].in)]
  /\ UNCHANGED grad

ReplicaEndStep ==
  /\ task.pc = "replicas"
  /\ \A r \in Replicas : task.rep[r].pc = "done"
  /\ task' = TaskIdle
  /\ loss' = LossIdle
  /\ UNCHANGED grad

InitReplica ==
  /\ grad = GradIdle
  /\ loss = LossIdle
  /\ task = TaskIdle

NextReplica ==
  \/ LossConstruct
  \/ ReplicaEnter
  \/ ReplicaFinish
  \/ ReplicaEndStep

SpecReplica == InitReplica /\ [][NextReplica]_vars

ReplicaDone(r) == task.pc = "replicas" /\ task.rep[r].pc = "done"

MaxCandidates == 3

\* candidate boxes: three boxes shifted along x, each overlapping the next,
\* and the dot that pads a thresholded list
NmsBoxA == Corners(Zero, Zero, Half, Half)
NmsBoxB == Corners(Zero, Fin(1, 8), Half, Fin(5, 8))
NmsBoxC == Corners(Zero, Fin(1, 4), Half, Fin(3, 4))
NmsDot == Corners(Zero, Zero, Zero, Zero)
NmsBoxes == {NmsBoxA, NmsBoxB, NmsBoxC, NmsDot}

NmsThresholds == {Half, Fin(1, 4)}

\* the confidence at rank i of n: descending, as sort_drop leaves it
RankedConfidence(i, n) == Fin(n + 1 - i, n + 1)

NmsCandidates ==
  UNION {{[i \in 1..n |-> [box |-> boxes[i], cls |-> Fin(classes[i], 1),
                            conf |-> RankedConfidence(i, n)]] :
            boxes \in [1..n -> NmsBoxes], classes \in [1..n -> ClassIds]} :
           n \in 1..MaxCandidates}

\* box_ops.compute_diou on corner-form boxes: iou - dist^2 / diag^2
compute_diou(c1, c2) ==
  LET l1 == [ymin |-> Lat(c1.ymin), xmin |-> Lat(c1.xmin),
             ymax |-> Lat(c1.ymax), xmax |-> Lat(c1.xmax)]
      l2 == [ymin |-> Lat(c2.ymin), xmin |-> Lat(c2.xmin),
             ymax |-> Lat(c2.ymax), xmax |-> Lat(c2.xmax)]
      e == LatEnclosing(l1, l2)
      diag2 == (e.xmax - e.xmin) * (e.xmax - e.xmin)
                 + (e.ymax - e.ymin) * (e.ymax - e.ymin)
      dx == (l1.xmin + l1.xmax) - (l2.xmin + l2.xmax)
      dy == (l1.ymin + l1.ymax) - (l2.ymin + l2.ymax)
      iou == LatRatio(LatIntersection(l1, l2), LatUnion(l1, l2))
  IN  FSub(iou, LatRatio(dx * dx + dy * dy, 4 * diag2))

\* aggregated_comparitive_iou(boxes): iou[i][j] of box i with box j
aggregated_comparitive_iou(boxes) ==
  Tensor([i \in DOMAIN boxes |->
            Tensor([j \in DOMAIN boxes |-> compute_diou(boxes[i], boxes[j])])])

\* a mask that lets a box suppress itself
mask_diag_inclusive(i, j) == j >= i

\* mask_diag of segment_nms: mask_x > mask_y, the column above the row
mask_diag(i, j) == j > i

ScaleCorners(c, s) ==
  Corners(FMul(c.ymin, s), FMul(c.xmin, s), FMul(c.ymax, s), FMul(c.xmax, s))

\* segment_nms(boxes, classes, confidence, k, iou_thresh)
segment_nms(cands, k, iou_thresh) ==
  LET iou == aggregated_comparitive_iou(Tensor([i \in 1..k |-> cands[i].box]))
      iou_mask == Tensor([i \in 1..k |->
                    Tensor([j \in 1..k |-> mask_diag(i, j) /\ FLe(iou_thresh, iou[i][j])])])
      can_suppress_others ==
        Tensor([j \in 1..k |-> FSub(One, Cast(\E i \in 1..k : iou_mask[i][j]))])
      raw == can_suppress_others
  IN  [raw |-> raw,
       cands |-> Tensor([j \in 1..k |->
                   [box |-> ScaleCorners(cands[j].box, raw[j]),
                    cls |-> FMul(cands[j].cls, raw[j]),
                    conf |-> FMul(cands[j].conf, raw[j])]])]

\* the maximum and the sum of a column, the sum of a matrix
RECURSIVE ColMax(_, _, _)
ColMax(m, j, n) ==
  IF n = 1 THEN m[1][j] ELSE FMaximum(ColMax(m, j, n - 1), m[n][j])

RECURSIVE ColSum(_, _, _)
ColSum(m, j, n) == IF n = 0 THEN Zero ELSE FAdd(ColSum(m, j, n - 1), m[n][j])

RECURSIVE MatSum(_, _)
MatSum(m, n) == IF n = 0 THEN Zero ELSE FAdd(MatSum(m, n - 1), ColSum(m, n, Len(m)))

\* one pass of _self_suppression: the rows of the boxes that are suppressed by
\* a box nothing suppresses are cleared
self_suppression_pass(iou) ==
  LET n == Len(iou)
      can_suppress_others == Tensor([i \in 1..n |-> Cast(FLe(ColMax(iou, i, n), Half))])
      scaled == Tensor([i \in 1..n |->
                  Tensor([j \in 1..n |-> FMul(can_suppress_others[i], iou[i][j])])])
      kept == Tensor([i \in 1..n |-> Cast(FLe(ColMax(scaled, i, n), Half))])
  IN  Tensor([i \in 1..n |-> Tensor([j \in 1..n |-> FMul(kept[i], iou[i][j])])])

RECURSIVE self_suppression(_)
\* the while loop over _self_suppression: until the sum of the matrix no longer
\* drops by more than 0.5
self_suppression(iou) ==
  LET new == self_suppression_pass(iou)
  IN  IF FLt(Half, FSub(MatSum(iou, Len(iou)), MatSum(new, Len(new))))
        THEN self_suppression(new)
        ELSE new

\* the tiled suppression on one tile: the ranks it keeps
tiled_nms_kept(cands, k, iou_thresh) ==
  LET full == aggregated_comparitive_iou(Tensor([i \in 1..k |-> cands[i].box]))
      iou == Tensor([i \in 1..k |->
               Tensor([j \in 1..k |->
                  FMul(full[i][j], Cast(j > i /\ FLe(iou_thresh, full[i][j])))])])
      suppressed_iou == self_suppression(iou)
  IN  {j \in 1..k : ~FLt(Zero, ColSum(suppressed_iou, j, k))}

NmsCall ==
  /\ loss.pc = "none"
  /\ \E cands \in NmsCandidates, iou_thresh \in NmsThresholds :
       loss' = [pc |-> "nms", cands |-> cands, k |-> Len(cands),
                iou_thresh |-> iou_thresh,
                out |-> segment_nms(cands, Len(cands), iou_thresh)]
  /\ UNCHANGED <<grad, task>>

NmsEnd ==
  /\ loss.pc = "nms"
  /\ loss' = LossIdle
  /\ UNCHANGED <<grad, task>>

InitNms ==
  /\ grad = GradIdle
  /\ loss = LossIdle
  /\ task = TaskIdle

NextNms ==
  \/ NmsCall
  \/ NmsEnd

SpecNms == InitNms /\ [][NextNms]_vars

NmsDone == loss.pc = "nms"

\* the ranks segment_nms keeps
SegmentKept == {j \in 1..loss.k : loss.out.raw[j] = One}

\* C26 (as stated): on every bounded list of candidates ordered by score,
\* segment_nms keeps exactly the boxes that the tiled iterative suppression
\* keeps, in which a suppressed box no longer suppresses other boxes.
C26_PairwiseEqualsTiled ==
  NmsDone => SegmentKept = tiled_nms_kept(loss.cands, loss.k, loss.iou_thresh)

\* the overlap of the boxes at ranks i and j
RankDiou(i, j) == compute_diou(loss.cands[i].box, loss.cands[j].box)

ZeroCandidate == [box |-> Corners(Zero, Zero, Zero, Zero), cls |-> Zero, conf |-> Zero]

\* C27: in segment_nms the box at rank j has its box, class and confidence
\* zeroed if and only if a box at a higher rank i < j has DIoU >= iou_thresh with
\* it; the top-ranked box is always kept and kept boxes are left unchanged.
C27_SuppressedIffHigherOverlap ==
  NmsDone =>
    /\ \A j \in 1..loss.k :
         LET suppressed == \E i \in 1..(j - 1) : FLe(loss.iou_thresh, RankDiou(i, j))
         IN  /\ (loss.out.raw[j] = Zero) <=> suppressed
             /\ suppressed => loss.out.cands[j] = ZeroCandidate
             /\ ~suppressed => loss.out.cands[j] = loss.cands[j]
    /\ loss.out.cands[1] = loss.cands[1]

C27_Witness ==
  /\ NmsDone /\ loss.k = 3 /\ loss.iou_thresh = Half
  /\ loss.cands[1].box = NmsBoxA /\ loss.cands[2].box = NmsBoxC
  /\ loss.cands[3].box = NmsBoxB /\ loss.cands[3].cls = One
  /\ SegmentKept = {1, 2}
  /\ loss.out.cands[3] = ZeroCandidate
  /\ loss.out.cands[2] = loss.cands[2]

\* the levels of a built head, as keys
BuiltLevels == {StrOf(i) : i \in task.min_level..task.max_level}

\* the last operation on the head read one of masks, path_scales, scale_xy and
\* num_boxes
HeadWasRead ==
  /\ task.pc \in {"head_new", "head_built"}
  /\ task.read.prop \in {"masks", "path_scales", "scale_xy", "num_boxes"}

\* C28 (as stated): on a head that has not been built, reading masks,
\* path_scales, scale_xy or num_boxes raises the exception 'model has to be built
\* before ... can be determined'; after build each of the four returns a value,
\* and masks, path_scales and scale_xy have one entry for every level from
\* min_level to max_level.
C28_ReadsGuardedByBuild ==
  HeadWasRead =>
    /\ task.pc = "head_new" =>
         /\ task.read.error = "Exception"
         /\ task.read.message \in
              {NotBuilt(what).message :
                 what \in {"the masks", "the path_scales", "the x_y_scales",
                           "number of boxes"}}
    /\ task.pc = "head_built" =>
         /\ task.read.error = ""
         /\ task.read.prop # "num_boxes" => DOMAIN task.read.value = BuiltLevels

(***************************************************************************)
(* YoloTask: the generation of the anchors by k-means in build_model and    *)
(* build_inputs (SpecAnchors).  The task is held in `task`.                 *)
(***************************************************************************)
\* k of the reader in build_inputs
BuildInputsK == 9
\* calls of build_model and build_inputs that are followed
MaxTaskCalls == 3

\* YoloTask.__init__ on a configuration without boxes
YoloTask_init(min_level, max_level, boxes_per_scale, is_training) ==
  [pc |-> "task",
   min_level |-> min_level, max_level |-> max_level,
   boxes_per_scale |-> boxes_per_scale, train_is_training |-> is_training,
   boxes_is_none |-> TRUE, boxes |-> 0,
   num_boxes_is_none |-> TRUE, num_boxes |-> 0,
   anchors_built |-> FALSE,
   kmeans_runs |-> 0, generated |-> 0, calls |-> 0, last |-> ""]

\* BoxGenInputReader.read(k) followed by set_boxes(anchors) and the flag
GenerateAnchors(t, k) ==
  [t EXCEPT !.boxes_is_none = FALSE, !.boxes = k, !.anchors_built = TRUE,
            !.kmeans_runs = t.kmeans_runs + 1, !.generated = k]

\* the anchor part of YoloTask.build_model
YoloTask_build_model(t) ==
  IF t.train_is_training /\ t.boxes_is_none /\ ~t.anchors_built
    THEN LET n == (t.max_level - t.min_level + 1) * t.boxes_per_scale
         IN  GenerateAnchors([t EXCEPT !.num_boxes_is_none = FALSE, !.num_boxes = n], n)
    ELSE t

\* the anchor part of YoloTask.build_inputs(params)
YoloTask_build_inputs(t, is_training) ==
  IF is_training /\ t.boxes_is_none /\ ~t.anchors_built
    THEN LET n == (t.max_level - t.min_level + 1) * t.boxes_per_scale
         IN  GenerateAnchors([t EXCEPT !.num_boxes_is_none = FALSE, !.num_boxes = n],
                             BuildInputsK)
    ELSE t

AnchorTaskInit ==
  /\ task.pc = "none"
  /\ \E r \in LevelRanges, bps \in 1..MaxLevelAnchors, is_training \in BOOLEAN :
       task' = YoloTask_init(IntOf(TaskLevels[r[1]]), IntOf(TaskLevels[r[2]]), bps,
                             is_training)
  /\ UNCHANGED <<grad, loss>>

AnchorBuildModel ==
  /\ task.pc = "task" /\ task.calls < MaxTaskCalls
  /\ task' = [YoloTask_build_model(task) EXCEPT !.calls = task.calls + 1,
                                                 !.last = "build_model"]
  /\ UNCHANGED <<grad, loss>>

AnchorBuildInputs ==
  /\ task.pc = "task" /\ task.calls < MaxTaskCalls
  /\ \E is_training \in BOOLEAN :
       task' = [YoloTask_build_inputs(task, is_training) EXCEPT
                  !.calls = task.calls + 1, !.last = "build_inputs"]
  /\ UNCHANGED <<grad, loss>>

AnchorTaskDrop ==
  /\ task.pc = "task"
  /\ task' = TaskIdle
  /\ UNCHANGED <<grad, loss>>

InitAnchors ==
  /\ grad = GradIdle
  /\ loss = LossIdle
  /\ task = TaskIdle

NextAnchors ==
  \/ AnchorTaskInit
  \/ AnchorBuildModel
  \/ AnchorBuildInputs
  \/ AnchorTaskDrop

SpecAnchors == InitAnchors /\ [][NextAnchors]_vars

\* C29 (as stated): over any sequence of build_model and build_inputs calls the
\* k-means generation runs at most once, and the number of anchors it generates
\* is (max_level - min_level + 1) * boxes_per_scale whichever call runs first.
C29_AnchorsOnceAndCounted ==
  task.pc = "task" =>
    /\ task.kmeans_runs <= 1
    /\ task.kmeans_runs = 1 =>
         task.generated = (task.max_level - task.min_level + 1) * task.boxes_per_scale

(***************************************************************************)
(* YoloTask.initialize (SpecInitialize).  The task configuration and the    *)
(* outcome of the call are held in `task`.                                  *)
(***************************************************************************)
CheckpointPaths == {"", "ckpt_dir", "ckpt_dir/ckpt-1"}
CheckpointModules == {"all", "backbone", "decoder", "head", ""}

OnlyAllOrBackbone == "Only 'all' or 'backbone' can be used to initialize the model."

\* a non-empty string is true
Truthy(s) == s # ""

\* YoloTask.initialize(model) under configuration c
YoloTask_initialize(c) ==
  LET done == [pc |-> "initialized", cfg |-> c, error |-> "", message |-> "",
               restored |-> {}, frozen |-> {}, log |-> FALSE]
  IN  IF c.load_darknet_weights
        THEN [done EXCEPT
                !.restored = IF c.darknet_load_decoder
                               THEN {"backbone", "decoder", "head"} ELSE {"backbone"},
                !.frozen = IF c.darknet_load_decoder
                             THEN {"backbone", "decoder.head"}
                                    \cup (IF c.neck_split THEN {"decoder.neck"} ELSE {})
                             ELSE {"backbone"}]
      ELSE IF ~Truthy(c.init_checkpoint) THEN done
      ELSE IF c.init_checkpoint_modules = "all"
        THEN IF c.ckpt_matches
               THEN [done EXCEPT !.restored = {"backbone", "decoder", "head"}, !.log = TRUE]
               ELSE [done EXCEPT !.error = "AssertionError", !.message = "assert_consumed"]
      ELSE IF c.init_checkpoint_modules = "backbone"
        THEN IF c.ckpt_matches
               THEN [done EXCEPT !.restored = {"backbone"}, !.log = TRUE]
               ELSE [done EXCEPT !.error = "AssertionError",
                                 !.message = "assert_existing_objects_matched"]
      ELSE IF ~Truthy(OnlyAllOrBackbone)
        THEN [done EXCEPT !.error = "AssertionError", !.message = OnlyAllOrBackbone]
      ELSE [done EXCEPT !.log = TRUE]

InitializeConfigure ==
  /\ task.pc = "none"
  /\ \E ldw \in BOOLEAN, dld \in BOOLEAN, neck \in BOOLEAN, ckpt \in CheckpointPaths,
        modules \in CheckpointModules, matches \in BOOLEAN :
       task' = [pc |-> "configured",
                cfg |-> [load_darknet_weights |-> ldw, darknet_load_decoder |-> dld,
                         neck_split |-> neck, init_checkpoint |-> ckpt,
                         init_checkpoint_modules |-> modules, ckpt_matches |-> matches],
                error |-> "", message |-> "", restored |-> {}, frozen |-> {}, log |-> FALSE]
  /\ UNCHANGED <<grad, loss>>

InitializeCall ==
  /\ task.pc = "configured"
  /\ task' = YoloTask_initialize(task.cfg)
  /\ UNCHANGED <<grad, loss>>

InitializeEnd ==
  /\ task.pc = "initialized"
  /\ task' = TaskIdle
  /\ UNCHANGED <<grad, loss>>

InitInitialize ==
  /\ grad = GradIdle
  /\ loss = LossIdle
  /\ task = TaskIdle

NextInitialize ==
  \/ InitializeConfigure
  \/ InitializeCall
  \/ InitializeEnd

SpecInitialize == InitInitialize /\ [][NextInitialize]_vars

\* C30 (as stated): when initialize loads a pretrained checkpoint, a value of
\* init_checkpoint_modules other than 'all' and 'backbone' makes it fail with the
\* assertion "Only 'all' or 'backbone' can be used to initialize the model." and
\* never reach the 'Finished loading pretrained checkpoint' log; with an empty
\* init_checkpoint it returns without restoring anything.
C30_OtherModulesRejected ==
  (task.pc = "initialized" /\ ~task.cfg.load_darknet_weights) =>
    /\ (task.cfg.init_checkpoint # ""
          /\ task.cfg.init_checkpoint_modules \notin {"all", "backbone"}) =>
         /\ task.error = "AssertionError"
         /\ task.message = OnlyAllOrBackbone
         /\ ~task.log
    /\ task.cfg.init_checkpoint = "" =>
         (task.error = "" /\ task.restored = {} /\ ~task.log)

====
